---- MODULE Spec2Model ----
(***************************************************************************)
(* Model of the result aggregation and ranking pipeline of foodfinder-ai:  *)
(* ToolManager (src/src/tools/yelp-search.ts, lines 471-711) together with *)
(* the record-building step of the provider adapters.                      *)
(*                                                                         *)
(* Conventions                                                             *)
(*   - a JavaScript string whose characters matter (name, address, the     *)
(*     dedup key) is a sequence of one-character strings, so that          *)
(*     toLowerCase and template concatenation are computed, not assumed;   *)
(*   - an optional value is a sequence: <<>> is undefined, <<v>> is v;     *)
(*   - a rating is held in tenths (45 is 4.5); a sub-score is held in      *)
(*     units of 1/SubScale, a weight in units of 1/WeightScale and a total *)
(*     score in units of 1/TotalScale, all exact (the arithmetic is that   *)
(*     of the reals: IEEE-754 rounding of the doubles is not modelled).    *)
(***************************************************************************)
EXTENDS Integers, Sequences, FiniteSets, TLC

(***************************************************************************)
(* Bounds of the model.                                                    *)
(***************************************************************************)
\* longest provider-name sequence given to searchWithMultipleTools
MaxTools == 2
\* longest item list in one provider response
MaxResults == 2
\* longest item list in one provider response, for concurrent invocations
MaxConcResults == 1
\* most searchWithMultipleTools calls made on the same provider answers
MaxRuns == 2
\* most calls of rankRestaurants on one argument
MaxCalls == 2
\* longest restaurant sequence given to rankRestaurants
MaxRank == 3

(***************************************************************************)
(* Strings.                                                                *)
(***************************************************************************)
\* String.prototype.toLowerCase on one character of the model's alphabet
ToLowerChar(c) ==
  CASE c = "A" -> "a"
    [] c = "B" -> "b"
    [] c = "C" -> "c"
    [] OTHER -> c

\* String.prototype.toLowerCase
toLowerCase(s) == [i \in 1..Len(s) |-> ToLowerChar(s[i])]

\* JavaScript truthiness of an optional string: defined and not ""
TruthyStr(o) == o # <<>> /\ o[1] # ""

\* x || d for an optional string
OrElse(o, d) == IF TruthyStr(o) THEN o[1] ELSE d

Min(a, b) == IF a < b THEN a ELSE b
Max(a, b) == IF a > b THEN a ELSE b

(***************************************************************************)
(* Types (src/src/types/restaurant.ts).                                    *)
(***************************************************************************)
BUDGET == "$"
MODERATE == "$$"
EXPENSIVE == "$$$"
VERY_EXPENSIVE == "$$$$"
PriceRange == {BUDGET, MODERATE, EXPENSIVE, VERY_EXPENSIVE}

GOOGLE == "google"
YELP == "yelp"
PERPLEXITY == "perplexity"

\* ratings are held in tenths
RatingScale == 2 * 5

\* the Restaurant record built by every adapter
Restaurant(id, name, address, phone, website, priceRange, rating, reviewCount, coordinates, hours, features, images, source) ==
  [ id |-> id, name |-> name, address |-> address, phone |-> phone,
    website |-> website, priceRange |-> priceRange, rating |-> rating,
    reviewCount |-> reviewCount, coordinates |-> coordinates, hours |-> hours,
    features |-> features, images |-> images, source |-> source ]

\* 'Address not available', the default address of every adapter
AddressNotAvailable == <<"n", "/", "a">>

(***************************************************************************)
(* ToolManager: information completeness and deduplication.                *)
(***************************************************************************)
\* getRestaurantInfoScore that counts a website that is defined, also when
\* it is the empty string
getRestaurantInfoScoreDefinedWebsite(restaurant) ==
    (IF TruthyStr(restaurant.phone) THEN 1 ELSE 0)
  + (IF restaurant.website # <<>> THEN 1 ELSE 0)
  + (IF restaurant.coordinates # <<>> THEN 1 ELSE 0)
  + (IF restaurant.hours # <<>> THEN 1 ELSE 0)
  + (IF restaurant.features # <<>> /\ Len(restaurant.features[1]) > 0 THEN 1 ELSE 0)
  + (IF restaurant.images # <<>> /\ Len(restaurant.images[1]) > 0 THEN 1 ELSE 0)

\* ToolManager.getRestaurantInfoScore
getRestaurantInfoScore(restaurant) ==
    (IF TruthyStr(restaurant.phone) THEN 1 ELSE 0)
  + (IF TruthyStr(restaurant.website) THEN 1 ELSE 0)
  + (IF restaurant.coordinates # <<>> THEN 1 ELSE 0)
  + (IF restaurant.hours # <<>> THEN 1 ELSE 0)
  + (IF restaurant.features # <<>> /\ Len(restaurant.features[1]) > 0 THEN 1 ELSE 0)
  + (IF restaurant.images # <<>> /\ Len(restaurant.images[1]) > 0 THEN 1 ELSE 0)

\* the Map key of combineAndDeduplicateResults:
\* `${restaurant.name.toLowerCase()}_${restaurant.address.toLowerCase()}`
DedupKey(restaurant) ==
  toLowerCase(restaurant.name) \o <<"_">> \o toLowerCase(restaurant.address)

\* A JavaScript Map is a sequence of entries in insertion order.
MapHas(m, key) == \E i \in 1..Len(m) : m[i].key = key
MapIndex(m, key) == CHOOSE i \in 1..Len(m) : m[i].key = key
MapGet(m, key) == m[MapIndex(m, key)].value
\* a set that deletes an existing key and appends it anew
MapSetMovesToEnd(m, key, value) ==
  Append(SelectSeq(m, LAMBDA e : e.key # key), [key |-> key, value |-> value])

\* Map.prototype.set: a new key is appended, an existing key keeps its place
MapSet(m, key, value) ==
  IF MapHas(m, key)
  THEN [m EXCEPT ![MapIndex(m, key)] = [key |-> key, value |-> value]]
  ELSE Append(m, [key |-> key, value |-> value])
\* Array.from(map.values())
MapValues(m) == [i \in 1..Len(m) |-> m[i].value]

\* DedupStep that never replaces: the first record of a key stays
DedupStepKeepsFirst(restaurantMap, restaurant) ==
  LET key == DedupKey(restaurant) IN
  IF ~MapHas(restaurantMap, key) THEN MapSet(restaurantMap, key, restaurant)
  ELSE restaurantMap

\* DedupStep that replaces on an equal score too (>= for >)
DedupStepLastWins(restaurantMap, restaurant) ==
  LET key == DedupKey(restaurant) IN
  IF ~MapHas(restaurantMap, key)
  THEN MapSet(restaurantMap, key, restaurant)
  ELSE IF getRestaurantInfoScore(restaurant)
            >= getRestaurantInfoScore(MapGet(restaurantMap, key))
       THEN MapSet(restaurantMap, key, restaurant)
       ELSE restaurantMap

\* DedupStep that, on a more complete duplicate, fills the retained record
\* with the newcomer's optional fields instead of replacing it
DedupStepMerges(restaurantMap, restaurant) ==
  LET key == DedupKey(restaurant) IN
  IF ~MapHas(restaurantMap, key)
  THEN MapSet(restaurantMap, key, restaurant)
  ELSE IF getRestaurantInfoScore(restaurant)
            > getRestaurantInfoScore(MapGet(restaurantMap, key))
       THEN MapSet(restaurantMap, key,
                   [restaurant EXCEPT !.id = MapGet(restaurantMap, key).id,
                                      !.source = MapGet(restaurantMap, key).source])
       ELSE restaurantMap

\* the body of the inner loop of combineAndDeduplicateResults
DedupStep(restaurantMap, restaurant) ==
  LET key == DedupKey(restaurant) IN
  IF ~MapHas(restaurantMap, key)
  THEN MapSet(restaurantMap, key, restaurant)
  ELSE IF getRestaurantInfoScore(restaurant)
            > getRestaurantInfoScore(MapGet(restaurantMap, key))
       THEN MapSet(restaurantMap, key, restaurant)
       ELSE restaurantMap

RECURSIVE DedupFold(_, _)
\* the inner loop: for (const restaurant of result.restaurants)
DedupFold(restaurantMap, restaurants) ==
  IF restaurants = <<>> THEN restaurantMap
  ELSE DedupFold(DedupStep(restaurantMap, Head(restaurants)), Tail(restaurants))

RECURSIVE DedupResults(_, _)
\* the outer loop: for (const result of results)
DedupResults(restaurantMap, results) ==
  IF results = <<>> THEN restaurantMap
  ELSE DedupResults(DedupFold(restaurantMap, Head(results).restaurants),
                    Tail(results))

\* combineAndDeduplicateResults whose outer loop stops one result early
combineSkipsLast(results) ==
  MapValues(DedupResults(<<>>, SubSeq(results, 1, Len(results) - 1)))

\* ToolManager.combineAndDeduplicateResults
combineAndDeduplicateResults(results) == MapValues(DedupResults(<<>>, results))

(***************************************************************************)
(* ToolManager: ranking.                                                   *)
(***************************************************************************)
\* sub-scores are held in units of 1/SubScale: the least common denominator
\* of rating/5 (ratings in tenths), reviewCount/100, the price and source
\* constants (tenths) and infoScore/6
SubScale == 3 * 100
\* weights are held in hundredths
WeightScale == 10 * 10
\* a total score is a sum of weight * sub-score
TotalScale == SubScale * WeightScale

ratingWeight == 30
reviewWeight == 20
priceWeight == 15
infoWeight == 20
sourceWeight == 15

\* a decimal constant d/10 of the code as a sub-score
Tenths(d) == (d * SubScale) \div 10

\* restaurant.rating / 5
ratingScore(restaurant) == (restaurant.rating * SubScale) \div (5 * RatingScale)

\* reviewScore without the cap
reviewScoreUncapped(restaurant) == (restaurant.reviewCount * SubScale) \div 100

\* reviewScore with the cap reached at 50 reviews
reviewScoreCapAtFifty(restaurant) == Min((restaurant.reviewCount * SubScale) \div 50, SubScale)

\* Math.min(restaurant.reviewCount / 100, 1)
reviewScore(restaurant) == Min((restaurant.reviewCount * SubScale) \div 100, SubScale)

\* priceScore without the default branch: the initial value 0 stays
priceScoreNoDefault(restaurant) ==
  CASE restaurant.priceRange = BUDGET -> Tenths(10)
    [] restaurant.priceRange = MODERATE -> Tenths(8)
    [] restaurant.priceRange = EXPENSIVE -> Tenths(6)
    [] restaurant.priceRange = VERY_EXPENSIVE -> Tenths(4)
    [] OTHER -> 0

\* switch (restaurant.priceRange)
priceScore(restaurant) ==
  CASE restaurant.priceRange = BUDGET -> Tenths(10)
    [] restaurant.priceRange = MODERATE -> Tenths(8)
    [] restaurant.priceRange = EXPENSIVE -> Tenths(6)
    [] restaurant.priceRange = VERY_EXPENSIVE -> Tenths(4)
    [] OTHER -> Tenths(5)

\* infoScore that counts the phone alone, six times
infoScorePhoneOnly(restaurant) == IF TruthyStr(restaurant.phone) THEN SubScale ELSE 0

\* this.getRestaurantInfoScore(restaurant) / 6
infoScore(restaurant) == (getRestaurantInfoScore(restaurant) * SubScale) \div 6

\* sourceScore that holds Google for the most reliable provider
sourceScoreGoogleBest(restaurant) == IF restaurant.source = GOOGLE THEN Tenths(10) ELSE Tenths(8)

\* restaurant.source === DataSource.YELP ? 1.0 : 0.8
sourceScore(restaurant) == IF restaurant.source = YELP THEN Tenths(10) ELSE Tenths(8)

RankingFactor(name, weight, score, description) ==
  [name |-> name, weight |-> weight, score |-> score, description |-> description]

\* calculateRestaurantRanking that leaves the data source out of the
\* breakdown it returns
calculateRestaurantRankingFourFactors(restaurant) ==
  LET factors ==
        << RankingFactor("Rating", ratingWeight, ratingScore(restaurant),
                         <<"Rating: ", restaurant.rating, "/5">>),
           RankingFactor("Review Count", reviewWeight, reviewScore(restaurant),
                         <<restaurant.reviewCount, " reviews">>),
           RankingFactor("Price Range", priceWeight, priceScore(restaurant),
                         <<"Price: ", restaurant.priceRange>>),
           RankingFactor("Information Completeness", infoWeight, infoScore(restaurant),
                         <<"Data quality score">>) >>
      totalScore ==
          ratingScore(restaurant) * ratingWeight
        + reviewScore(restaurant) * reviewWeight
        + priceScore(restaurant) * priceWeight
        + infoScore(restaurant) * infoWeight
        + sourceScore(restaurant) * sourceWeight
  IN [restaurant |-> restaurant, score |-> totalScore, factors |-> factors]

\* ToolManager.calculateRestaurantRanking: the factors are pushed, and the
\* total accumulated, in this order
calculateRestaurantRanking(restaurant) ==
  LET factors ==
        << RankingFactor("Rating", ratingWeight, ratingScore(restaurant),
                         <<"Rating: ", restaurant.rating, "/5">>),
           RankingFactor("Review Count", reviewWeight, reviewScore(restaurant),
                         <<restaurant.reviewCount, " reviews">>),
           RankingFactor("Price Range", priceWeight, priceScore(restaurant),
                         <<"Price: ", restaurant.priceRange>>),
           RankingFactor("Information Completeness", infoWeight, infoScore(restaurant),
                         <<"Data quality score">>),
           RankingFactor("Data Source", sourceWeight, sourceScore(restaurant),
                         <<"Source: ", restaurant.source>>) >>
      totalScore ==
          ratingScore(restaurant) * ratingWeight
        + reviewScore(restaurant) * reviewWeight
        + priceScore(restaurant) * priceWeight
        + infoScore(restaurant) * infoWeight
        + sourceScore(restaurant) * sourceWeight
  IN [restaurant |-> restaurant, score |-> totalScore, factors |-> factors]

\* the comparator with its operands exchanged
compareFnAscending(a, b) == a.score - b.score

\* the comparator of rankRestaurants: (a, b) => b.score - a.score
compareFn(a, b) == b.score - a.score

RECURSIVE SortInsert(_, _)
\* one insertion of the stable sort: e goes before the first element that
\* the comparator orders after it
SortInsert(sorted, e) ==
  IF sorted = <<>> THEN <<e>>
  ELSE IF compareFn(Head(sorted), e) > 0
       THEN <<e>> \o sorted
       ELSE <<Head(sorted)>> \o SortInsert(Tail(sorted), e)

RECURSIVE SortFrom(_, _)
SortFrom(sorted, rest) ==
  IF rest = <<>> THEN sorted
  ELSE SortFrom(SortInsert(sorted, Head(rest)), Tail(rest))

\* Array.prototype.sort(compareFn): a stable sort (ECMAScript 2019)
Sort(rankings) == SortFrom(<<>>, rankings)

\* ToolManager.rankRestaurants
rankRestaurants(restaurants) ==
  Sort([i \in 1..Len(restaurants) |-> calculateRestaurantRanking(restaurants[i])])

(***************************************************************************)
(* Provider adapters: the step from a provider's item to a Restaurant.     *)
(* The free-text scraping of the Google adapter is taken as done: a Google *)
(* item carries what the regular expressions matched.                      *)
(***************************************************************************)
\* Buffer.from(s).toString('base64').substring(0, 8): the first eight base64
\* characters encode exactly the first six bytes
Base64Prefix(s) == SubSeq(s, 1, Min(Len(s), 6))

\* YelpSearchTool.mapYelpPriceToPriceRange
mapYelpPriceToPriceRange(yelpPrice) ==
  IF yelpPrice \in PriceRange THEN yelpPrice ELSE MODERATE

\* YelpSearchTool.extractFeaturesFromBusiness
extractFeaturesFromBusiness(business) ==
     (IF "delivery" \in business.transactions THEN <<"Delivery">> ELSE <<>>)
  \o (IF "pickup" \in business.transactions THEN <<"Takeout">> ELSE <<>>)
  \o (IF ~business.is_closed THEN <<"Currently Open">> ELSE <<>>)
  \o (IF business.distance # 0 THEN <<"Distance">> ELSE <<>>)

\* parseBusiness throws when it reads a field of an absent object
\* (mapYelpCoordinates reads coords.latitude)
parseBusinessThrows(business) == business.coordinates = <<>>

\* YelpSearchTool.parseBusiness
parseBusiness(business) ==
  Restaurant(<<"yelp", Base64Prefix(business.id), Base64Prefix(business.name)>>,
             business.name,
             IF business.address1 # <<>> /\ business.address1[1] # <<>>
               THEN business.address1[1] ELSE AddressNotAvailable,
             <<business.phone>>,
             <<business.url>>,
             mapYelpPriceToPriceRange(business.price),
             business.rating,
             business.review_count,
             business.coordinates,
             <<>>,
             <<extractFeaturesFromBusiness(business)>>,
             IF business.image_url # "" THEN << <<business.image_url>> >> ELSE <<>>,
             YELP)

\* the rating filter that ends YelpSearchTool.parseSearchResults
FilterByRating(restaurants, rating) ==
  SelectSeq(restaurants, LAMBDA r : r.rating >= rating)

RECURSIVE YelpParseLoopAborts(_)
\* the loop of parseSearchResults without its try/catch: the first item whose
\* parsing throws ends the loop
YelpParseLoopAborts(businesses) ==
  IF businesses = <<>> THEN <<>>
  ELSE IF parseBusinessThrows(Head(businesses)) THEN <<>>
       ELSE <<parseBusiness(Head(businesses))>> \o YelpParseLoopAborts(Tail(businesses))

RECURSIVE YelpParseLoop(_)
\* the loop of YelpSearchTool.parseSearchResults: an item whose parsing
\* throws is logged and skipped
YelpParseLoop(businesses) ==
  IF businesses = <<>> THEN <<>>
  ELSE (IF parseBusinessThrows(Head(businesses)) THEN <<>>
        ELSE <<parseBusiness(Head(businesses))>>)
       \o YelpParseLoop(Tail(businesses))

\* YelpSearchTool.parseSearchResults
YelpParseSearchResults(businesses, searchParams) ==
  IF searchParams.rating # 0
  THEN FilterByRating(YelpParseLoop(businesses), searchParams.rating)
  ELSE YelpParseLoop(businesses)

\* GoogleSearchTool.extractRating, on the number the patterns matched
extractRating(ratingMatch) ==
  IF ratingMatch # <<>>
  THEN Min(Max(ratingMatch[1], 1 * RatingScale), 5 * RatingScale)
  ELSE 4 * RatingScale

\* GoogleSearchTool.extractReviewCount, on the number the pattern matched
extractReviewCount(reviewMatch) == IF reviewMatch # <<>> THEN reviewMatch[1] ELSE 50

\* parseSearchResult throws when generateRestaurantId reads an absent link
\* (Buffer.from(undefined))
parseSearchResultThrows(item) == item.isRestaurant /\ item.link = <<>>

\* GoogleSearchTool.parseSearchResult, past the isRestaurantResult test
parseSearchResult(item) ==
  Restaurant(<<"google", Base64Prefix(item.link), Base64Prefix(item.name)>>,
             item.name,
             IF item.address # <<>> THEN item.address ELSE AddressNotAvailable,
             item.phone,
             <<item.link>>,
             item.priceRange,
             extractRating(item.ratingMatch),
             extractReviewCount(item.reviewMatch),
             <<>>,
             <<>>,
             <<item.features>>,
             <<>>,
             GOOGLE)

RECURSIVE GoogleParseSearchResults(_)
\* GoogleSearchTool.parseSearchResults: parseSearchResult returns null for an
\* item that is no restaurant, and null is not pushed; an item whose parsing
\* throws is logged and skipped
GoogleParseSearchResults(items) ==
  IF items = <<>> THEN <<>>
  ELSE (IF ~Head(items).isRestaurant \/ parseSearchResultThrows(Head(items)) THEN <<>>
        ELSE <<parseSearchResult(Head(items))>>)
       \o GoogleParseSearchResults(Tail(items))

\* PerplexitySearchTool.mapPriceRange, on the tier word found in the string
mapPriceRange(priceStr) ==
  CASE priceStr = "budget" -> BUDGET
    [] priceStr = "moderate" -> MODERATE
    [] priceStr = "upscale" -> EXPENSIVE
    [] priceStr = "luxury" -> VERY_EXPENSIVE
    [] OTHER -> MODERATE

\* PerplexitySearchTool.parseRestaurant: result.rating || 4.0 and
\* result.reviewCount || 50 replace only 0 and absent values
parseRestaurant(result) ==
  Restaurant(<<"perplexity", Base64Prefix(result.name), Base64Prefix(result.address)>>,
             IF result.name # <<>> THEN result.name ELSE <<"U", "n", "k">>,
             IF result.address # <<>> THEN result.address ELSE AddressNotAvailable,
             IF TruthyStr(result.phone) THEN result.phone ELSE <<>>,
             IF TruthyStr(result.website) THEN result.website ELSE <<>>,
             mapPriceRange(result.priceRange),
             IF result.rating # 0 THEN result.rating ELSE 4 * RatingScale,
             IF result.reviewCount # 0 THEN result.reviewCount ELSE 50,
             <<>>,
             result.hours,
             <<result.features>>,
             <<>>,
             PERPLEXITY)

\* parseRestaurant catches what it throws and returns null: a result without
\* name makes generateRestaurantId throw (Buffer.from(undefined))
parseRestaurantThrows(result) == "name" \notin DOMAIN result

RECURSIVE PerplexityParseSearchResults(_)
\* PerplexitySearchTool.parseSearchResults, on the restaurants array of the
\* JSON object found in the response: null is not pushed
PerplexityParseSearchResults(results) ==
  IF results = <<>> THEN <<>>
  ELSE (IF parseRestaurantThrows(Head(results)) THEN <<>>
        ELSE <<parseRestaurant(Head(results))>>)
       \o PerplexityParseSearchResults(Tail(results))

(***************************************************************************)
(* Provider responses the model draws from.                                *)
(***************************************************************************)
YelpBusiness(id, name, address1, phone, url, price, rating, review_count, coordinates, image_url, transactions, is_closed, distance) ==
  [ id |-> id, name |-> name, address1 |-> address1, phone |-> phone, url |-> url,
    price |-> price, rating |-> rating, review_count |-> review_count,
    coordinates |-> coordinates, image_url |-> image_url,
    transactions |-> transactions, is_closed |-> is_closed, distance |-> distance ]

GoogleItem(link, name, address, phone, ratingMatch, reviewMatch, priceRange, features, isRestaurant) ==
  [ link |-> link, name |-> name, address |-> address, phone |-> phone,
    ratingMatch |-> ratingMatch, reviewMatch |-> reviewMatch,
    priceRange |-> priceRange, features |-> features, isRestaurant |-> isRestaurant ]

SomeCoordinates == <<[latitude |-> 37, longitude |-> -122]>>

\* businesses of a Yelp response: a complete record, a sparse one whose name
\* holds the key separator, one that cannot be parsed
YelpBusinesses ==
  { YelpBusiness(<<"y", "1">>, <<"A">>, << <<"c">> >>, "415", "u1", "$", 45, 150,
                 SomeCoordinates, "img", {"delivery"}, FALSE, 0),
    YelpBusiness(<<"y", "2">>, <<"a", "_", "b">>, << <<"C">> >>, "", "", "$$$$", 30, 0,
                 SomeCoordinates, "", {}, TRUE, 0),
    YelpBusiness(<<"y", "4">>, <<"b">>, << <<"c">> >>, "415", "u4", "$$", 40, 10,
                 <<>>, "", {"pickup"}, FALSE, 0) }

\* a business without address, price and rating above the scale's middle
MoreYelpBusinesses ==
  { YelpBusiness(<<"y", "3">>, <<"a">>, <<>>, "", "", "", 50, 100,
                 SomeCoordinates, "", {}, TRUE, 1609) }

\* items of a Google response: one with the name and address of the complete
\* Yelp record, one whose address holds the key separator, one that is no
\* restaurant
GoogleItems ==
  { GoogleItem(<<"g", "1">>, <<"a">>, <<"c">>, <<"650">>, <<47>>, <<200>>, MODERATE,
               <<"Reservations">>, TRUE),
    GoogleItem(<<"g", "2">>, <<"a">>, <<"b", "_", "c">>, <<>>, <<>>, <<>>, BUDGET,
               <<>>, TRUE),
    GoogleItem(<<"g", "4">>, <<"b">>, <<"c">>, <<>>, <<>>, <<>>, BUDGET, <<>>, FALSE) }

\* a second page about the first restaurant, an item without address whose
\* snippet gives a rating above the scale
MoreGoogleItems ==
  { GoogleItem(<<"g", "5">>, <<"a">>, <<"c">>, <<>>, <<>>, <<>>, BUDGET, <<>>, TRUE),
    GoogleItem(<<"g", "3">>, <<"A">>, <<>>, <<>>, <<70>>, <<5>>, EXPENSIVE, <<>>, TRUE) }

\* all sequences over S of length at most n
SeqsUpTo(S, n) == UNION {[1..k -> S] : k \in 0..n}

\* RestaurantSearchParams: rating 0 stands for an absent rating filter
ParamsPool ==
  { [query |-> "pizza", location |-> "sf", rating |-> 0],
    [query |-> "pizza", location |-> "sf", rating |-> 4 * RatingScale] }

\* provider names a caller may pass; "bing" is not registered
ToolNamePool == {"google", "yelp", "bing"}

(***************************************************************************)
(* State.                                                                  *)
(***************************************************************************)
VARIABLES
  tools,       \* ToolManager.tools: the registered provider names
  pc,          \* where the invocation stands
  op,          \* the ToolManager operation invoked
  toolNames,   \* argument of searchWithMultipleTools / searchWithTool
  params,      \* argument: the search parameters
  idx,         \* position of the for-of loop in toolNames
  allResults,  \* local of searchWithMultipleTools
  inflight,    \* adapter calls started and not yet settled
  calls,       \* history: every adapter searchRestaurants call, in order
  outcomes,    \* history: how each loop position ended
  returned,    \* the value the operation resolved with, if any
  thrown,      \* the error the operation rejected with, if any
  restaurants, \* argument of rankRestaurants
  rankings,    \* value returned by rankRestaurants, if any
  invocations, \* the locals of each concurrent searchWithMultipleTools call
  responses,   \* what each provider answers, where the answers are held fixed
  runs,        \* history: the calls made on the fixed answers and their results
  agent        \* the locals of RestaurantRecommendationAgent.getRecommendations

vars == << tools, pc, op, toolNames, params, idx, allResults, inflight, calls,
           outcomes, returned, thrown, restaurants, rankings, invocations,
           responses, runs, agent >>

aggVars == << tools, pc, op, toolNames, params, idx, allResults, inflight, calls,
              outcomes, returned, thrown >>
rankVars == << restaurants, rankings >>
concVars == << invocations >>
fixedVars == << responses, runs >>
agentVars == << agent >>
aggVars_but_pc == << tools, op, toolNames, params, idx, allResults, inflight,
                     calls, outcomes, returned, thrown >>

\* ToolManager.initializeTools
initializeTools == {"google", "yelp"}

\* the responses the provider behind a registered tool may give
Responses(toolName) ==
  IF toolName = "yelp" THEN SeqsUpTo(YelpBusinesses, MaxResults)
  ELSE SeqsUpTo(GoogleItems, MaxResults)

\* SearchTool.searchRestaurants of the tool registered under toolName, when
\* the provider answers with response
searchRestaurants(toolName, response, searchParams) ==
  LET parsed == IF toolName = "yelp"
                THEN YelpParseSearchResults(response, searchParams)
                ELSE IF toolName = "perplexity"
                THEN PerplexityParseSearchResults(response)
                ELSE GoogleParseSearchResults(response)
  IN [ restaurants |-> parsed, totalResults |-> Len(parsed),
       searchParams |-> searchParams ]

\* the error searchRestaurants rejects with
SearchFailed(toolName) == [name |-> "Error", message |-> <<toolName, " search failed">>]

\* the error searchWithTool throws for a name that is not registered
ToolNotFound(toolName) == [name |-> "Error", message |-> <<"Tool not found", toolName>>]

Init ==
  /\ tools = initializeTools
  /\ pc = "idle"
  /\ op = "none"
  /\ toolNames = <<>>
  /\ params \in ParamsPool
  /\ idx = 0
  /\ allResults = <<>>
  /\ inflight = {}
  /\ calls = <<>>
  /\ outcomes = <<>>
  /\ returned = <<>>
  /\ thrown = <<>>
  /\ restaurants = <<>>
  /\ rankings = <<>>
  /\ invocations = <<>>
  /\ responses = <<>>
  /\ runs = <<>>
  /\ agent = <<>>

(***************************************************************************)
(* ToolManager.searchWithMultipleTools, one step per await.                *)
(***************************************************************************)
Outcome(toolName, status, found) ==
  [tool |-> toolName, status |-> status, restaurants |-> found]

\* a caller invokes searchWithMultipleTools(toolNames, params)
StartMulti ==
  /\ pc = "idle"
  /\ \E names \in SeqsUpTo(ToolNamePool, MaxTools) :
       toolNames' = names
  /\ op' = "searchWithMultipleTools"
  /\ idx' = 1
  /\ allResults' = <<>>
  /\ pc' = "loop"
  /\ UNCHANGED << tools, params, inflight, calls, outcomes, returned, thrown, rankVars, concVars, fixedVars, agentVars >>

\* CallTool without the await: the call is started and the loop goes on
CallToolNoAwait ==
  /\ pc = "loop"
  /\ idx <= Len(toolNames)
  /\ toolNames[idx] \in tools
  /\ inflight' = inflight \cup {idx}
  /\ calls' = Append(calls, [tool |-> toolNames[idx], params |-> params, pos |-> idx])
  /\ idx' = idx + 1
  /\ UNCHANGED << tools, pc, op, toolNames, params, allResults, outcomes,
                  returned, thrown, rankVars, concVars, fixedVars, agentVars >>

\* CallTool that hands the adapter the parameters without the rating filter
CallToolDropsRating ==
  /\ pc = "loop"
  /\ idx <= Len(toolNames)
  /\ toolNames[idx] \in tools
  /\ inflight' = inflight \cup {idx}
  /\ calls' = Append(calls, [tool |-> toolNames[idx],
                             params |-> [params EXCEPT !.rating = 0], pos |-> idx])
  /\ pc' = "await"
  /\ UNCHANGED << tools, op, toolNames, params, idx, allResults, outcomes,
                  returned, thrown, rankVars, concVars, fixedVars, agentVars >>

\* loop body, searchWithTool finds the tool and awaits its searchRestaurants
CallTool ==
  /\ pc = "loop"
  /\ idx <= Len(toolNames)
  /\ toolNames[idx] \in tools
  /\ inflight' = inflight \cup {idx}
  /\ calls' = Append(calls, [tool |-> toolNames[idx], params |-> params, pos |-> idx])
  /\ pc' = "await"
  /\ UNCHANGED << tools, op, toolNames, params, idx, allResults, outcomes,
                  returned, thrown, rankVars, concVars, fixedVars, agentVars >>

\* CatchToolNotFound without the try/catch: the tool-not-found error passes
\* to the caller
CatchToolNotFoundRethrows ==
  /\ pc = "loop"
  /\ idx <= Len(toolNames)
  /\ toolNames[idx] \notin tools
  /\ outcomes' = Append(outcomes, Outcome(toolNames[idx], "notfound", <<>>))
  /\ thrown' = <<ToolNotFound(toolNames[idx])>>
  /\ pc' = "done"
  /\ UNCHANGED << tools, op, toolNames, params, idx, allResults, inflight, calls,
                  returned, rankVars, concVars, fixedVars, agentVars >>

\* loop body, searchWithTool throws for a name that is not registered; the
\* catch clause logs and the loop continues
CatchToolNotFound ==
  /\ pc = "loop"
  /\ idx <= Len(toolNames)
  /\ toolNames[idx] \notin tools
  /\ outcomes' = Append(outcomes, Outcome(toolNames[idx], "notfound", <<>>))
  /\ idx' = idx + 1
  /\ UNCHANGED << tools, pc, op, toolNames, params, allResults, inflight, calls,
                  returned, thrown, rankVars, concVars, fixedVars, agentVars >>

\* the awaited searchRestaurants resolves: allResults.push(result)
AdapterReturns ==
  /\ pc = "await"
  /\ \E response \in Responses(toolNames[idx]) :
       LET result == searchRestaurants(toolNames[idx], response, params) IN
       /\ allResults' = Append(allResults, result)
       /\ outcomes' = Append(outcomes, Outcome(toolNames[idx], "ok", result.restaurants))
  /\ inflight' = inflight \ {idx}
  /\ idx' = idx + 1
  /\ pc' = "loop"
  /\ UNCHANGED << tools, op, toolNames, params, calls, returned, thrown, rankVars, concVars, fixedVars, agentVars >>

\* AdapterFails with a catch clause that leaves the loop (break)
AdapterFailsBreaks ==
  /\ pc = "await"
  /\ outcomes' = Append(outcomes, Outcome(toolNames[idx], "failed", <<>>))
  /\ inflight' = inflight \ {idx}
  /\ idx' = Len(toolNames) + 1
  /\ pc' = "loop"
  /\ UNCHANGED << tools, op, toolNames, params, allResults, calls, returned,
                  thrown, rankVars, concVars, fixedVars, agentVars >>

\* AdapterFails without the try/catch: the rejection passes to the caller
AdapterFailsRethrows ==
  /\ pc = "await"
  /\ outcomes' = Append(outcomes, Outcome(toolNames[idx], "failed", <<>>))
  /\ inflight' = inflight \ {idx}
  /\ thrown' = <<SearchFailed(toolNames[idx])>>
  /\ pc' = "done"
  /\ UNCHANGED << tools, op, toolNames, params, idx, allResults, calls, returned,
                  rankVars, concVars, fixedVars, agentVars >>

\* the awaited searchRestaurants rejects: the catch clause logs and the loop
\* continues with the other tools
AdapterFails ==
  /\ pc = "await"
  /\ outcomes' = Append(outcomes, Outcome(toolNames[idx], "failed", <<>>))
  /\ inflight' = inflight \ {idx}
  /\ idx' = idx + 1
  /\ pc' = "loop"
  /\ UNCHANGED << tools, op, toolNames, params, allResults, calls, returned,
                  thrown, rankVars, concVars, fixedVars, agentVars >>

\* the sum of the totalResults of the adapters' results
RECURSIVE SumTotalResults(_)
SumTotalResults(results) ==
  IF results = <<>> THEN 0
  ELSE Head(results).totalResults + SumTotalResults(Tail(results))

\* ReturnCombined that reports the sum of the adapters' counts
ReturnCombinedSumsTotals ==
  /\ pc = "loop"
  /\ idx > Len(toolNames)
  /\ LET combinedRestaurants == combineAndDeduplicateResults(allResults) IN
       returned' = << [ restaurants |-> combinedRestaurants,
                        totalResults |-> SumTotalResults(allResults),
                        searchParams |-> params ] >>
  /\ pc' = "done"
  /\ UNCHANGED << tools, op, toolNames, params, idx, allResults, inflight, calls,
                  outcomes, thrown, rankVars, concVars, fixedVars, agentVars >>

\* after the loop: combine, deduplicate and return
ReturnCombined ==
  /\ pc = "loop"
  /\ idx > Len(toolNames)
  /\ LET combinedRestaurants == combineAndDeduplicateResults(allResults) IN
       returned' = << [ restaurants |-> combinedRestaurants,
                        totalResults |-> Len(combinedRestaurants),
                        searchParams |-> params ] >>
  /\ pc' = "done"
  /\ UNCHANGED << tools, op, toolNames, params, idx, allResults, inflight, calls,
                  outcomes, thrown, rankVars, concVars, fixedVars, agentVars >>

(***************************************************************************)
(* ToolManager.searchWithTool, called directly.                            *)
(***************************************************************************)
\* a caller invokes searchWithTool(toolName, params) with a registered name
StartSingle ==
  /\ pc = "idle"
  /\ \E toolName \in ToolNamePool :
       /\ toolName \in tools
       /\ toolNames' = <<toolName>>
       /\ calls' = Append(calls, [tool |-> toolName, params |-> params, pos |-> 1])
  /\ op' = "searchWithTool"
  /\ idx' = 1
  /\ inflight' = inflight \cup {1}
  /\ pc' = "awaitSingle"
  /\ UNCHANGED << tools, params, allResults, outcomes, returned, thrown, rankVars, concVars, fixedVars, agentVars >>

\* searchWithTool that falls back to the Google tool for an unknown name
StartSingleFallsBack ==
  /\ pc = "idle"
  /\ \E toolName \in ToolNamePool :
       /\ toolName \notin tools
       /\ toolNames' = <<toolName>>
       /\ calls' = Append(calls, [tool |-> "google", params |-> params, pos |-> 1])
  /\ op' = "searchWithTool"
  /\ idx' = 1
  /\ inflight' = inflight \cup {1}
  /\ pc' = "awaitSingle"
  /\ UNCHANGED << tools, params, allResults, outcomes, returned, thrown, rankVars, concVars, fixedVars, agentVars >>

\* a caller invokes searchWithTool(toolName, params) with a name that is not
\* registered: the call throws before any adapter is reached
StartSingleNotFound ==
  /\ pc = "idle"
  /\ \E toolName \in ToolNamePool :
       /\ toolName \notin tools
       /\ toolNames' = <<toolName>>
       /\ thrown' = <<ToolNotFound(toolName)>>
  /\ op' = "searchWithTool"
  /\ idx' = 1
  /\ pc' = "done"
  /\ UNCHANGED << tools, params, allResults, inflight, calls, outcomes, returned,
                  rankVars, concVars, fixedVars, agentVars >>

\* return await tool.searchRestaurants(params), resolved
SingleReturns ==
  /\ pc = "awaitSingle"
  /\ \E response \in Responses(toolNames[1]) :
       returned' = <<searchRestaurants(toolNames[1], response, params)>>
  /\ inflight' = inflight \ {1}
  /\ pc' = "done"
  /\ UNCHANGED << tools, op, toolNames, params, idx, allResults, calls, outcomes,
                  thrown, rankVars, concVars, fixedVars, agentVars >>

\* return await tool.searchRestaurants(params), rejected: the error passes
\* to the caller
SingleFails ==
  /\ pc = "awaitSingle"
  /\ thrown' = <<SearchFailed(toolNames[1])>>
  /\ inflight' = inflight \ {1}
  /\ pc' = "done"
  /\ UNCHANGED << tools, op, toolNames, params, idx, allResults, calls, outcomes,
                  returned, rankVars, concVars, fixedVars, agentVars >>

Next ==
  \/ StartMulti
  \/ CallTool
  \/ CatchToolNotFound
  \/ AdapterReturns
  \/ AdapterFails
  \/ ReturnCombined
  \/ StartSingle
  \/ StartSingleNotFound
  \/ SingleReturns
  \/ SingleFails

Spec == Init /\ [][Next]_vars


(***************************************************************************)
(* ToolManager.rankRestaurants on its own: the argument is any sequence of *)
(* Restaurant values.                                                      *)
(***************************************************************************)
SomeHours == <<[monday |-> "09:00-17:00"]>>

\* restaurants that differ in what getRestaurantInfoScore reads: each
\* optional field absent, present and empty, present and filled
InfoPool ==
  { Restaurant(<<"i">>, <<"a">>, <<"c">>, phone, website, MODERATE, 4 * RatingScale, 50,
               coordinates, hours, features, images, GOOGLE) :
      phone \in {<<>>, <<"">>, <<"415">>},
      website \in {<<>>, <<"">>, <<"u">>},
      coordinates \in {<<>>, SomeCoordinates},
      hours \in {<<>>, SomeHours},
      features \in {<<>>, << <<>> >>, << <<"Delivery">> >>},
      images \in {<<>>, << <<>> >>, << <<"img">> >>} }

\* restaurants that differ in the other four factors, within the ranges of
\* the data model (rating 1..5, reviewCount >= 0), at completeness 0 and 6;
\* "?" is a price value outside the enum
ScorePool ==
  { Restaurant(<<"s">>, <<"a">>, <<"c">>, <<full>>, <<full>>, priceRange, rating,
               reviewCount,
               IF full = "" THEN <<>> ELSE SomeCoordinates,
               IF full = "" THEN <<>> ELSE SomeHours,
               IF full = "" THEN <<>> ELSE << <<"Delivery">> >>,
               IF full = "" THEN <<>> ELSE << <<"img">> >>,
               source) :
      full \in {"", "x"},
      priceRange \in PriceRange \cup {"?"},
      rating \in {1 * RatingScale, 45, 5 * RatingScale},
      reviewCount \in {0, 50, 100, 150, 500},
      source \in {GOOGLE, YELP, "combined"} }

\* results of a Perplexity response: on a five-point scale, without rating,
\* and with the rating the provider gave on a ten-point scale
PerplexityResults ==
  { [ name |-> <<"a">>, address |-> <<"c">>, phone |-> <<"415">>, website |-> <<>>,
      rating |-> rating, reviewCount |-> reviewCount, priceRange |-> "budget",
      hours |-> <<>>, features |-> <<"patio">> ] :
      rating \in {0, 45, 92}, reviewCount \in {0, 150} }

\* what the adapters can return
AdapterPool ==
       {parseBusiness(b) :
          b \in {y \in YelpBusinesses \cup MoreYelpBusinesses : ~parseBusinessThrows(y)}}
  \cup {parseSearchResult(i) :
          i \in {g \in GoogleItems \cup MoreGoogleItems : g.isRestaurant}}
  \cup {parseRestaurant(r) : r \in PerplexityResults}

\* a few restaurants with equal and with different scores, for the order
SortPool ==
  { r \in ScorePool :
      /\ r.phone = <<"x">> /\ r.priceRange = BUDGET /\ r.reviewCount = 150
      /\ \/ r.source = YELP
         \/ r.source = GOOGLE /\ r.rating = 45 }
  \cup {parseRestaurant(r) : r \in {x \in PerplexityResults : x.reviewCount = 0}}

\* restaurants that agree or differ in what the ranking reads and differ in
\* id, name and address: the first two agree in rating, review count, price,
\* completeness (one field each, not the same field) and reliability tier
TwinPool ==
  { Restaurant(<<"t", "1">>, <<"a">>, <<"c">>, <<"415">>, <<>>, MODERATE, 45, 50,
               <<>>, <<>>, <<>>, <<>>, GOOGLE),
    Restaurant(<<"t", "2">>, <<"b">>, <<"d">>, <<>>, <<"u">>, MODERATE, 45, 50,
               <<>>, <<>>, <<>>, <<>>, "combined"),
    Restaurant(<<"t", "3">>, <<"b">>, <<"d">>, <<>>, <<"u">>, MODERATE, 45, 50,
               <<>>, <<>>, <<>>, <<>>, YELP),
    Restaurant(<<"t", "4">>, <<"a">>, <<"c">>, <<"415">>, <<"u">>, MODERATE, 45, 50,
               <<>>, <<>>, <<>>, <<>>, GOOGLE) }

RankInputs ==
       SeqsUpTo(SortPool, MaxRank)
  \cup {<<r>> : r \in InfoPool \cup ScorePool \cup AdapterPool}
  \cup {<<a, b>> : a \in TwinPool, b \in TwinPool}

InitRank ==
  /\ tools = initializeTools
  /\ pc = "rank"
  /\ op = "rankRestaurants"
  /\ toolNames = <<>>
  /\ params \in {p \in ParamsPool : p.rating = 0}
  /\ idx = 0
  /\ allResults = <<>>
  /\ inflight = {}
  /\ calls = <<>>
  /\ outcomes = <<>>
  /\ returned = <<>>
  /\ thrown = <<>>
  /\ restaurants \in RankInputs
  /\ rankings = <<>>
  /\ invocations = <<>>
  /\ responses = <<>>
  /\ runs = <<>>
  /\ agent = <<>>

\* rankRestaurants that rejects an empty list
RankRestaurantsRejectsEmpty ==
  /\ pc = "rank"
  /\ IF restaurants = <<>>
     THEN /\ thrown' = <<[name |-> "Error", message |-> <<"No restaurants to rank">>]>>
          /\ pc' = "done"
          /\ UNCHANGED << tools, op, toolNames, params, idx, allResults, inflight,
                          calls, outcomes, returned, rankVars, concVars, fixedVars, agentVars >>
     ELSE /\ rankings' = <<rankRestaurants(restaurants)>>
          /\ pc' = "ranked"
          /\ UNCHANGED << aggVars_but_pc, restaurants, concVars, fixedVars, agentVars >>

\* a caller invokes rankRestaurants(restaurants): the rankings array is a
\* local of the call, the argument is read and left as it is
RankRestaurants ==
  /\ pc = "rank"
  /\ rankings' = <<rankRestaurants(restaurants)>>
  /\ pc' = "ranked"
  /\ UNCHANGED << aggVars_but_pc, restaurants, concVars, fixedVars, agentVars >>

\* rankRestaurants whose rankings array outlives the call: the second call
\* pushes onto what the first call left
RankAgainKeepsRankings ==
  /\ pc = "ranked"
  /\ Len(rankings) < MaxCalls
  /\ rankings' = Append(rankings,
                        Sort(rankings[Len(rankings)] \o
                             [i \in 1..Len(restaurants) |->
                                calculateRestaurantRanking(restaurants[i])]))
  /\ UNCHANGED << aggVars, restaurants, concVars, fixedVars, agentVars >>

\* the caller invokes rankRestaurants(restaurants) again, with the same
\* argument
RankAgain ==
  /\ pc = "ranked"
  /\ Len(rankings) < MaxCalls
  /\ rankings' = Append(rankings, rankRestaurants(restaurants))
  /\ UNCHANGED << aggVars, restaurants, concVars, fixedVars, agentVars >>

NextRank ==
  \/ RankRestaurants
  \/ RankAgain

SpecRank == InitRank /\ [][NextRank]_vars

(***************************************************************************)
(* Two searchWithMultipleTools invocations on the shared toolManager. Each *)
(* invocation has its own toolNames, params, loop position and allResults  *)
(* (arguments and locals of the async function); this.tools is shared and  *)
(* only read. An invocation gives up control at its awaits.                *)
(***************************************************************************)
Invocations == {1, 2}

\* the name sequences the two callers pass
ConcToolNames == {<<"google", "yelp">>, <<"bing", "yelp">>}

\* the two callers pass different parameters
ConcParams(i) ==
  IF i = 1 THEN [query |-> "pizza", location |-> "sf", rating |-> 0]
  ELSE [query |-> "pizza", location |-> "sf", rating |-> 4 * RatingScale]

ConcResponses(toolName) ==
  IF toolName = "yelp" THEN SeqsUpTo(YelpBusinesses, MaxConcResults)
  ELSE SeqsUpTo(GoogleItems, MaxConcResults)

InitConc ==
  /\ tools = initializeTools
  /\ pc = "concurrent"
  /\ op = "searchWithMultipleTools"
  /\ toolNames = <<>>
  /\ params \in {p \in ParamsPool : p.rating = 0}
  /\ idx = 0
  /\ allResults = <<>>
  /\ inflight = {}
  /\ calls = <<>>
  /\ outcomes = <<>>
  /\ returned = <<>>
  /\ thrown = <<>>
  /\ restaurants = <<>>
  /\ rankings = <<>>
  /\ invocations = [i \in Invocations |->
                      [ pc |-> "idle", toolNames |-> <<>>, params |-> ConcParams(i),
                        idx |-> 0, allResults |-> <<>>, outcomes |-> <<>>,
                        returned |-> <<>>, thrown |-> <<>>, overlapped |-> FALSE ]]
  /\ responses = <<>>
  /\ runs = <<>>
  /\ agent = <<>>

\* another invocation is waiting for an adapter
OtherAwaits(i) == \E j \in Invocations : j # i /\ invocations[j].pc = "await"

\* caller i invokes searchWithMultipleTools(toolNames, params)
ConcStart(i) ==
  /\ invocations[i].pc = "idle"
  /\ \E names \in ConcToolNames :
       invocations' = [invocations EXCEPT ![i] =
                         [@ EXCEPT !.pc = "loop", !.toolNames = names, !.idx = 1,
                                   !.allResults = <<>>]]
  /\ UNCHANGED << aggVars, rankVars, fixedVars, agentVars >>

\* invocation i: searchWithTool finds the tool and awaits its searchRestaurants
ConcCallTool(i) ==
  LET inv == invocations[i] IN
  /\ inv.pc = "loop"
  /\ inv.idx <= Len(inv.toolNames)
  /\ inv.toolNames[inv.idx] \in tools
  /\ invocations' = [invocations EXCEPT ![i] =
                       [@ EXCEPT !.pc = "await",
                                 !.overlapped = @ \/ OtherAwaits(i)]]
  /\ UNCHANGED << aggVars, rankVars, fixedVars, agentVars >>

\* invocation i: searchWithTool throws for an unregistered name, caught
ConcCatchToolNotFound(i) ==
  LET inv == invocations[i] IN
  /\ inv.pc = "loop"
  /\ inv.idx <= Len(inv.toolNames)
  /\ inv.toolNames[inv.idx] \notin tools
  /\ invocations' = [invocations EXCEPT ![i] =
                       [@ EXCEPT !.idx = @ + 1,
                                 !.outcomes = Append(@, Outcome(inv.toolNames[inv.idx],
                                                                "notfound", <<>>))]]
  /\ UNCHANGED << aggVars, rankVars, fixedVars, agentVars >>

\* ConcAdapterReturns with allResults held in a field of the shared
\* ToolManager: the result is pushed onto what every running invocation reads
ConcAdapterReturnsShared(i) ==
  LET inv == invocations[i] IN
  /\ inv.pc = "await"
  /\ \E response \in ConcResponses(inv.toolNames[inv.idx]) :
       LET result == searchRestaurants(inv.toolNames[inv.idx], response, inv.params) IN
       invocations' =
         [j \in Invocations |->
            IF j = i
            THEN [invocations[j] EXCEPT
                    !.pc = "loop", !.idx = @ + 1,
                    !.allResults = Append(@, result),
                    !.outcomes = Append(@, Outcome(inv.toolNames[inv.idx], "ok",
                                                   result.restaurants))]
            ELSE IF invocations[j].pc \in {"loop", "await"}
                 THEN [invocations[j] EXCEPT !.allResults = Append(@, result)]
                 ELSE invocations[j]]
  /\ UNCHANGED << aggVars, rankVars, fixedVars, agentVars >>

\* invocation i: the awaited searchRestaurants resolves, allResults.push(result)
ConcAdapterReturns(i) ==
  LET inv == invocations[i] IN
  /\ inv.pc = "await"
  /\ \E response \in ConcResponses(inv.toolNames[inv.idx]) :
       LET result == searchRestaurants(inv.toolNames[inv.idx], response, inv.params) IN
       invocations' = [invocations EXCEPT ![i] =
                         [@ EXCEPT !.pc = "loop", !.idx = @ + 1,
                                   !.allResults = Append(@, result),
                                   !.outcomes = Append(@, Outcome(inv.toolNames[inv.idx],
                                                                  "ok", result.restaurants))]]
  /\ UNCHANGED << aggVars, rankVars, fixedVars, agentVars >>

\* invocation i: the awaited searchRestaurants rejects, caught
ConcAdapterFails(i) ==
  LET inv == invocations[i] IN
  /\ inv.pc = "await"
  /\ invocations' = [invocations EXCEPT ![i] =
                       [@ EXCEPT !.pc = "loop", !.idx = @ + 1,
                                 !.outcomes = Append(@, Outcome(inv.toolNames[inv.idx],
                                                                "failed", <<>>))]]
  /\ UNCHANGED << aggVars, rankVars, fixedVars, agentVars >>

\* invocation i: after the loop, combine, deduplicate and return
ConcReturnCombined(i) ==
  LET inv == invocations[i]
      combinedRestaurants == combineAndDeduplicateResults(inv.allResults) IN
  /\ inv.pc = "loop"
  /\ inv.idx > Len(inv.toolNames)
  /\ invocations' = [invocations EXCEPT ![i] =
                       [@ EXCEPT !.pc = "done",
                                 !.returned = << [ restaurants |-> combinedRestaurants,
                                                   totalResults |-> Len(combinedRestaurants),
                                                   searchParams |-> inv.params ] >>]]
  /\ UNCHANGED << aggVars, rankVars, fixedVars, agentVars >>

NextConc ==
  \/ \E i \in Invocations : ConcStart(i)
  \/ \E i \in Invocations : ConcCallTool(i)
  \/ \E i \in Invocations : ConcCatchToolNotFound(i)
  \/ \E i \in Invocations : ConcAdapterReturns(i)
  \/ \E i \in Invocations : ConcAdapterFails(i)
  \/ \E i \in Invocations : ConcReturnCombined(i)

SpecConc == InitConc /\ [][NextConc]_vars

(***************************************************************************)
(* searchWithMultipleTools as one step, on provider answers that are held  *)
(* fixed: the same answers are given to calls that differ in the order of  *)
(* the name sequence.                                                      *)
(***************************************************************************)
\* what a provider answers: a response, or a failure of the request
Answer(items) == [ok |-> TRUE, items |-> items]
Rejected == [ok |-> FALSE, items |-> <<>>]

RECURSIVE CollectResults(_, _, _)
\* the loop of searchWithMultipleTools: allResults after the last name
CollectResults(names, searchParams, answers) ==
  IF names = <<>> THEN <<>>
  ELSE (IF Head(names) \in tools /\ answers[Head(names)].ok
        THEN <<searchRestaurants(Head(names), answers[Head(names)].items, searchParams)>>
        ELSE <<>>)
       \o CollectResults(Tail(names), searchParams, answers)

\* ToolManager.searchWithMultipleTools, from the call to the value returned
searchWithMultipleTools(names, searchParams, answers) ==
  LET combinedRestaurants ==
        combineAndDeduplicateResults(CollectResults(names, searchParams, answers))
  IN [ restaurants |-> combinedRestaurants,
       totalResults |-> Len(combinedRestaurants),
       searchParams |-> searchParams ]

\* Yelp businesses of the fixed answers: the two that can be parsed and one
\* with the name and address of the sparse Google item, as sparse as it
OrderYelpBusinesses ==
       {b \in YelpBusinesses : ~parseBusinessThrows(b)}
  \cup { YelpBusiness(<<"y", "5">>, <<"a">>, << <<"b", "_", "c">> >>, "", "", "$", 40, 20,
                      SomeCoordinates, "", {}, TRUE, 0) }

OrderGoogleItems == {g \in GoogleItems : g.isRestaurant}

\* the name sequences whose orderings are compared
OrderToolNames == {<<"google", "yelp">>, <<"bing", "google", "yelp">>}

\* every ordering of a sequence
Orderings(seq) ==
  { [i \in 1..Len(seq) |-> seq[f[i]]] :
      f \in {g \in [1..Len(seq) -> 1..Len(seq)] :
               \A i \in 1..Len(seq), j \in 1..Len(seq) : g[i] = g[j] => i = j} }

InitOrder ==
  /\ tools = initializeTools
  /\ pc = "order"
  /\ op = "searchWithMultipleTools"
  /\ toolNames \in OrderToolNames
  /\ params \in {p \in ParamsPool : p.rating = 0}
  /\ idx = 0
  /\ allResults = <<>>
  /\ inflight = {}
  /\ calls = <<>>
  /\ outcomes = <<>>
  /\ returned = <<>>
  /\ thrown = <<>>
  /\ restaurants = <<>>
  /\ rankings = <<>>
  /\ invocations = <<>>
  /\ responses \in
       { [t \in tools |-> IF t = "yelp" THEN y ELSE g] :
           y \in {Rejected} \cup {Answer(r) : r \in SeqsUpTo(OrderYelpBusinesses, MaxResults)},
           g \in {Rejected} \cup {Answer(r) : r \in SeqsUpTo(OrderGoogleItems, MaxResults)} }
  /\ runs = <<>>
  /\ agent = <<>>

\* a run of searchWithMultipleTools on the fixed answers
Run(names) ==
  [toolNames |-> names, returned |-> searchWithMultipleTools(names, params, responses)]

\* the caller invokes searchWithMultipleTools(toolNames, params)
OrderFirstRun ==
  /\ pc = "order"
  /\ runs = <<>>
  /\ runs' = <<Run(toolNames)>>
  /\ UNCHANGED << aggVars, rankVars, concVars, responses, agentVars >>

\* the caller invokes it again with the names in another order
OrderNextRun ==
  /\ pc = "order"
  /\ runs # <<>>
  /\ Len(runs) < MaxRuns
  /\ \E names \in Orderings(toolNames) :
       /\ \A k \in 1..Len(runs) : runs[k].toolNames # names
       /\ runs' = Append(runs, Run(names))
  /\ UNCHANGED << aggVars, rankVars, concVars, responses, agentVars >>

NextOrder ==
  \/ OrderFirstRun
  \/ OrderNextRun

SpecOrder == InitOrder /\ [][NextOrder]_vars

(***************************************************************************)
(* One searchRestaurants call of one provider adapter, from the provider's *)
(* answer to the SearchResult.                                             *)
(***************************************************************************)
Providers == {"google", "yelp", "perplexity"}

\* Yelp businesses: those above and a business without reviews, rated 0
AdapterYelpBusinesses ==
  YelpBusinesses \cup MoreYelpBusinesses
  \cup { YelpBusiness(<<"y", "6">>, <<"d">>, << <<"e">> >>, "510", "u6", "$$", 0, 0,
                      SomeCoordinates, "", {}, FALSE, 0) }

\* Google items: those above and an item without link
AdapterGoogleItems ==
  GoogleItems \cup MoreGoogleItems
  \cup { GoogleItem(<<>>, <<"a">>, <<"c">>, <<>>, <<30>>, <<>>, BUDGET, <<>>, TRUE) }

\* Perplexity results: those above and a result without name
AdapterPerplexityResults ==
  PerplexityResults
  \cup { [ address |-> <<"c">>, phone |-> <<>>, website |-> <<>>, rating |-> 45,
           reviewCount |-> 10, priceRange |-> "budget", hours |-> <<>>,
           features |-> <<>> ] }

ProviderItems(provider) ==
  CASE provider = "yelp" -> AdapterYelpBusinesses
    [] provider = "google" -> AdapterGoogleItems
    [] provider = "perplexity" -> AdapterPerplexityResults

InitAdapter ==
  /\ tools = initializeTools
  /\ pc = "adapter"
  /\ op = "searchRestaurants"
  /\ \E provider \in Providers :
       /\ toolNames = <<provider>>
       /\ responses \in
            { [t \in {provider} |-> a] :
                a \in {Rejected} \cup
                      {Answer(r) : r \in SeqsUpTo(ProviderItems(provider), MaxResults)} }
  /\ params \in ParamsPool
  /\ idx = 0
  /\ allResults = <<>>
  /\ inflight = {}
  /\ calls = <<>>
  /\ outcomes = <<>>
  /\ returned = <<>>
  /\ thrown = <<>>
  /\ restaurants = <<>>
  /\ rankings = <<>>
  /\ invocations = <<>>
  /\ runs = <<>>
  /\ agent = <<>>

\* searchRestaurants(params), the provider answers: parse and return
AdapterSearchReturns ==
  /\ pc = "adapter"
  /\ responses[toolNames[1]].ok
  /\ returned' = <<searchRestaurants(toolNames[1], responses[toolNames[1]].items, params)>>
  /\ pc' = "done"
  /\ UNCHANGED << tools, op, toolNames, params, idx, allResults, inflight, calls,
                  outcomes, thrown, rankVars, concVars, fixedVars, agentVars >>

\* searchRestaurants(params), the request fails: the error is logged and a
\* new Error is thrown
AdapterSearchFails ==
  /\ pc = "adapter"
  /\ ~responses[toolNames[1]].ok
  /\ thrown' = <<SearchFailed(toolNames[1])>>
  /\ pc' = "done"
  /\ UNCHANGED << tools, op, toolNames, params, idx, allResults, inflight, calls,
                  outcomes, returned, rankVars, concVars, fixedVars, agentVars >>

NextAdapter ==
  \/ AdapterSearchReturns
  \/ AdapterSearchFails

SpecAdapter == InitAdapter /\ [][NextAdapter]_vars

(***************************************************************************)
(* Properties of the aggregation (specification Spec).                     *)
(***************************************************************************)
\* searchWithMultipleTools has returned or thrown
MultiDone == op = "searchWithMultipleTools" /\ pc = "done"

Range(seq) == {seq[i] : i \in 1..Len(seq)}

\* the loop positions whose adapter call succeeded
OkPositions == {i \in 1..Len(outcomes) : outcomes[i].status = "ok"}

\* the adapter of loop position j has been invoked
Invoked(j) == \E k \in 1..Len(calls) : calls[k].pos = j /\ calls[k].tool = toolNames[j]

\* C1: when one adapter's searchRestaurants call fails, that adapter
\* contributes no restaurants to the result (every returned record comes from
\* an adapter call that succeeded, and only those calls were collected) and
\* every adapter named later in the sequence is still invoked.
C1_FailureIsolated ==
  MultiDone =>
    \A i \in 1..Len(toolNames) :
      (i <= Len(outcomes) /\ outcomes[i].status = "failed") =>
        /\ returned # <<>>
        /\ Len(allResults) = Cardinality(OkPositions)
        /\ \A r \in Range(returned[1].restaurants) :
             \E k \in OkPositions : r \in Range(outcomes[k].restaurants)
        /\ \A j \in (i + 1)..Len(toolNames) : toolNames[j] \in tools => Invoked(j)

\* a failed adapter followed by one that succeeded with restaurants
C1_Witness ==
  /\ MultiDone
  /\ Len(outcomes) = 2
  /\ outcomes[1].status = "failed"
  /\ outcomes[2].status = "ok"
  /\ Invoked(2)
  /\ returned # <<>>
  /\ Len(returned[1].restaurants) > 0

\* C2: searchWithMultipleTools never raises to its caller, whatever
\* combination of adapters succeeds or fails; when every adapter fails it
\* returns a result with an empty restaurant sequence and totalResults 0.
C2_NeverRaises ==
  op = "searchWithMultipleTools" =>
    /\ thrown = <<>>
    /\ MultiDone =>
         /\ returned # <<>>
         /\ OkPositions = {} =>
              /\ returned[1].restaurants = <<>>
              /\ returned[1].totalResults = 0

\* two adapters were called, both failed, and the call returned
C2_Witness ==
  /\ MultiDone
  /\ Len(calls) = 2
  /\ \A i \in 1..Len(outcomes) : outcomes[i].status = "failed"
  /\ returned # <<>>
  /\ returned[1].totalResults = 0

\* the (lower-cased name, lower-cased address) pair of a record
NameAddress(r) == <<toLowerCase(r.name), toLowerCase(r.address)>>

RECURSIVE Concat(_)
Concat(seqs) == IF seqs = <<>> THEN <<>> ELSE Head(seqs) \o Concat(Tail(seqs))

\* the records of the successful adapters, in adapter order then result order
Encountered ==
  Concat([k \in 1..Len(outcomes) |->
            IF outcomes[k].status = "ok" THEN outcomes[k].restaurants ELSE <<>>])

\* searchWithMultipleTools([A, B], params) has ended, A failed, B succeeded
FailedThenOk ==
  /\ MultiDone
  /\ Len(toolNames) = 2
  /\ toolNames[1] # toolNames[2]
  /\ Len(outcomes) = 2
  /\ outcomes[1].status = "failed"
  /\ outcomes[2].status = "ok"

\* C3 as stated: if adapter A fails and adapter B succeeds, the call returns
\* exactly the restaurant records B returned, none added and none dropped,
\* and no error.
C3_ExactlyB ==
  FailedThenOk =>
    /\ thrown = <<>>
    /\ returned # <<>>
    /\ returned[1].restaurants = outcomes[2].restaurants

\* C3 as amended: if adapter A fails and adapter B succeeds, the call returns
\* no error and B's records deduplicated among themselves: every returned
\* record is one B returned, every dedup key of B's records is returned
\* exactly once, and when B's records have pairwise different keys the result
\* is B's sequence itself.
C3_BDeduplicated ==
  FailedThenOk =>
    LET b == outcomes[2].restaurants IN
    /\ thrown = <<>>
    /\ returned # <<>>
    /\ LET out == returned[1].restaurants IN
       /\ Range(out) \subseteq Range(b)
       /\ {DedupKey(r) : r \in Range(out)} = {DedupKey(r) : r \in Range(b)}
       /\ \A i, j \in 1..Len(out) : DedupKey(out[i]) = DedupKey(out[j]) => i = j
       /\ (\A i, j \in 1..Len(b) : DedupKey(b[i]) = DedupKey(b[j]) => i = j)
            => out = b

\* A failed, B returned two records with different keys, both are returned
C3_Witness ==
  /\ FailedThenOk
  /\ Len(outcomes[2].restaurants) = 2
  /\ DedupKey(outcomes[2].restaurants[1]) # DedupKey(outcomes[2].restaurants[2])
  /\ returned # <<>>
  /\ Len(returned[1].restaurants) = 2

\* C4 as stated: the aggregated output holds exactly one record for each
\* distinct (lower-cased name, lower-cased address) pair of the union of the
\* adapters' results: no two output records agree on both, and no pair of the
\* union is missing.
C4_OnePerNameAddress ==
  (MultiDone /\ returned # <<>>) =>
    LET out == returned[1].restaurants IN
    /\ \A i, j \in 1..Len(out) : NameAddress(out[i]) = NameAddress(out[j]) => i = j
    /\ {NameAddress(r) : r \in Range(out)} = {NameAddress(r) : r \in Range(Encountered)}

\* the first position of Encountered that holds the highest completeness
\* score among the records with the given key
FirstBest(key) ==
  CHOOSE k \in 1..Len(Encountered) :
    /\ DedupKey(Encountered[k]) = key
    /\ \A m \in 1..Len(Encountered) :
         DedupKey(Encountered[m]) = key =>
           /\ getRestaurantInfoScore(Encountered[m]) <= getRestaurantInfoScore(Encountered[k])
           /\ getRestaurantInfoScore(Encountered[m]) = getRestaurantInfoScore(Encountered[k])
                => k <= m

\* C5: among all records sharing a dedup key (the key string the aggregator
\* builds), across and within adapters, the output holds exactly one, the
\* one with the highest information completeness score, and among several
\* with that score the one encountered first (adapter order, result order).
C5_BestFirstRetained ==
  (MultiDone /\ returned # <<>>) =>
    LET out == returned[1].restaurants IN
    /\ \A i \in 1..Len(out) : out[i] = Encountered[FirstBest(DedupKey(out[i]))]
    /\ \A k \in 1..Len(Encountered) :
         Cardinality({i \in 1..Len(out) : DedupKey(out[i]) = DedupKey(Encountered[k])}) = 1

\* three records share a key, from two adapters; a later one replaced the
\* first, and two of them tie
C5_Witness ==
  /\ MultiDone
  /\ returned # <<>>
  /\ \E key \in {DedupKey(r) : r \in Range(Encountered)} :
       LET group == {k \in 1..Len(Encountered) : DedupKey(Encountered[k]) = key} IN
       /\ Cardinality(group) >= 3
       /\ Cardinality({Encountered[k].source : k \in group}) = 2
       /\ FirstBest(key) > 1
       /\ \E k, m \in group :
            /\ k # m
            /\ getRestaurantInfoScore(Encountered[k]) = getRestaurantInfoScore(Encountered[m])

\* C7: searchWithTool called with a provider name that is not registered
\* fails with the tool-not-found error surfaced to the caller, and no
\* adapter's searchRestaurants is invoked by that call.
C7_UnknownProviderFails ==
  (op = "searchWithTool" /\ toolNames[1] \notin tools) =>
    /\ pc = "done"
    /\ thrown = <<ToolNotFound(toolNames[1])>>
    /\ returned = <<>>
    /\ calls = <<>>
    /\ inflight = {}

\* searchWithTool("bing", params) has thrown
C7_Witness ==
  /\ op = "searchWithTool"
  /\ toolNames = <<"bing">>
  /\ "bing" \notin tools
  /\ thrown # <<>>
  /\ calls = <<>>

\* C18: within one searchWithMultipleTools invocation the adapter calls are
\* issued one at a time in the order of the name sequence: the call at
\* position i+1 starts only after the call at position i has completed or
\* failed, so at most one adapter call is in flight at any moment.
C18_OneCallAtATime ==
  op = "searchWithMultipleTools" =>
    /\ Cardinality(inflight) <= 1
    /\ \A j \in inflight : Len(outcomes) = j - 1
    /\ \A k \in 1..Len(calls) :
         /\ calls[k].pos \in 1..Len(toolNames)
         /\ calls[k].tool = toolNames[calls[k].pos]
         /\ calls[k].pos <= Len(outcomes) + 1
         /\ \A m \in 1..Len(calls) : k < m => calls[k].pos < calls[m].pos

\* the second adapter call is in flight and the first has completed
C18_Witness ==
  /\ op = "searchWithMultipleTools"
  /\ pc = "await"
  /\ Len(calls) = 2
  /\ inflight = {2}
  /\ Len(outcomes) = 1
  /\ outcomes[1].status = "ok"

\* C19: searchWithMultipleTools passes the same unmodified search parameters
\* to every adapter it invokes and returns those same parameters as
\* searchParams of the aggregated result.
C19_ParamsUnchanged ==
  op = "searchWithMultipleTools" =>
    /\ \A k \in 1..Len(calls) : calls[k].params = params
    /\ \A k \in 1..Len(allResults) : allResults[k].searchParams = params
    /\ returned # <<>> => returned[1].searchParams = params

\* two adapters were called with a rating filter and the result has returned
C19_Witness ==
  /\ MultiDone
  /\ params.rating > 0
  /\ Len(calls) = 2
  /\ calls[1].tool # calls[2].tool
  /\ calls[1].params = params
  /\ calls[2].params = params
  /\ returned # <<>>
  /\ returned[1].searchParams = params

(***************************************************************************)
(* Properties of the ranking (specification SpecRank).                     *)
(***************************************************************************)
\* rankRestaurants has returned
Ranked == pc = "ranked" /\ rankings # <<>>

CompletenessFields == {"phone", "website", "coordinates", "hours", "features", "images"}

\* the six conditions of the completeness score, as the specification words
\* them
FieldPresent(r, f) ==
  CASE f = "phone" -> r.phone # <<>> /\ r.phone # <<"">>
    [] f = "website" -> r.website # <<>> /\ r.website # <<"">>
    [] f = "coordinates" -> r.coordinates # <<>>
    [] f = "hours" -> r.hours # <<>>
    [] f = "features" -> r.features # <<>> /\ r.features # << <<>> >>
    [] f = "images" -> r.images # <<>> /\ r.images # << <<>> >>

CompletenessCount(r) == Cardinality({f \in CompletenessFields : FieldPresent(r, f)})

\* C6: the information completeness score of a restaurant is the number of
\* the six conditions that hold (phone non-empty, website non-empty,
\* coordinates present, hours present, feature list non-empty, image list
\* non-empty), an integer in 0..6, and the completeness factor of the
\* ranking is that same score divided by 6.
C6_CompletenessCount ==
  Ranked =>
    \A i \in 1..Len(rankings[1]) :
      LET r == rankings[1][i].restaurant IN
      /\ getRestaurantInfoScore(r) = CompletenessCount(r)
      /\ getRestaurantInfoScore(r) \in 0..6
      /\ rankings[1][i].factors[4].name = "Information Completeness"
      /\ rankings[1][i].factors[4].score * 6 = CompletenessCount(r) * SubScale

\* a ranked restaurant with an empty phone, an empty website, an empty image
\* list and the three other fields filled
C6_Witness ==
  /\ Ranked
  /\ \E i \in 1..Len(rankings[1]) :
       LET r == rankings[1][i].restaurant IN
       /\ r.phone = <<"">>
       /\ r.website = <<"">>
       /\ r.images = << <<>> >>
       /\ getRestaurantInfoScore(r) = 3
       /\ rankings[1][i].factors[4].score * 2 = SubScale

\* C8: the sequence returned by rankRestaurants is ordered by non-increasing
\* score.
C8_SortedByScore ==
  Ranked =>
    \A i \in 1..(Len(rankings[1]) - 1) :
      rankings[1][i].score >= rankings[1][i + 1].score

\* three restaurants given in increasing score order have been ranked
C8_Witness ==
  /\ Ranked
  /\ Len(restaurants) = 3
  /\ Len(rankings[1]) = 3
  /\ rankings[1][1].restaurant = restaurants[3]
  /\ rankings[1][3].restaurant = restaurants[1]
  /\ rankings[1][1].score > rankings[1][2].score
  /\ rankings[1][2].score > rankings[1][3].score

\* C9 as stated: for every restaurant passed to rankRestaurants, including
\* every restaurant an adapter can return, the total score is in [0,1] and
\* each of the five factor sub-scores is in [0,1].
C9_ScoresInUnitInterval ==
  Ranked =>
    \A i \in 1..Len(rankings[1]) :
      /\ rankings[1][i].score >= 0
      /\ rankings[1][i].score <= TotalScale
      /\ \A k \in 1..Len(rankings[1][i].factors) :
           /\ rankings[1][i].factors[k].score >= 0
           /\ rankings[1][i].factors[k].score <= SubScale

\* the sub-scores of the specification's table, in units of 1/SubScale
TableSubScores(r) ==
  << (r.rating * SubScale) \div (5 * RatingScale),
     IF r.reviewCount >= 100 THEN SubScale ELSE (r.reviewCount * SubScale) \div 100,
     CASE r.priceRange = BUDGET -> SubScale
       [] r.priceRange = MODERATE -> (8 * SubScale) \div 10
       [] r.priceRange = EXPENSIVE -> (6 * SubScale) \div 10
       [] r.priceRange = VERY_EXPENSIVE -> (4 * SubScale) \div 10
       [] OTHER -> (5 * SubScale) \div 10,
     (CompletenessCount(r) * SubScale) \div 6,
     IF r.source = YELP THEN SubScale ELSE (8 * SubScale) \div 10 >>

TableWeights == <<30, 20, 15, 20, 15>>

RECURSIVE WeightedSum(_, _)
WeightedSum(weights, scores) ==
  IF weights = <<>> THEN 0
  ELSE Head(weights) * Head(scores) + WeightedSum(Tail(weights), Tail(scores))

\* the restaurant of the specification's scenario
IsScenario(r) ==
  /\ r.rating = 45
  /\ r.reviewCount = 150
  /\ r.priceRange = BUDGET
  /\ CompletenessCount(r) = 6
  /\ r.source = YELP

FirstRankings == {rankings[1][i] : i \in 1..Len(rankings[1])}

\* C11: the review-count sub-score is min(reviewCount / 100, 1): 0 for
\* reviewCount 0, 1 for every reviewCount of 100 or more, never above 1.
C11_ReviewScoreCapped ==
  Ranked =>
    \A rk \in FirstRankings :
      LET n == rk.restaurant.reviewCount
          sub == rk.factors[2].score IN
      /\ rk.factors[2].name = "Review Count"
      /\ n >= 0 /\ n < 100 => sub * 100 = n * SubScale
      /\ n = 0 => sub = 0
      /\ n >= 100 => sub = SubScale
      /\ sub <= SubScale

\* a restaurant with 500 reviews has been ranked with the sub-score 1
C11_Witness ==
  /\ Ranked
  /\ \E rk \in FirstRankings :
       /\ rk.restaurant.reviewCount = 500
       /\ rk.factors[2].name = "Review Count"
       /\ rk.factors[2].score = SubScale

\* the price tiers from the cheapest to the most expensive
TierOrder == <<BUDGET, MODERATE, EXPENSIVE, VERY_EXPENSIVE>>

\* C12: the price-tier sub-score is 1.0 for budget, 0.8 for moderate, 0.6
\* for expensive, 0.4 for very-expensive and 0.5 for any other value, and a
\* cheaper defined tier never scores lower than a more expensive one.
C12_PriceTierScore ==
  Ranked =>
    /\ \A rk \in FirstRankings :
         LET tier == rk.restaurant.priceRange
             sub == rk.factors[3].score IN
         /\ rk.factors[3].name = "Price Range"
         /\ tier = BUDGET => sub * 10 = 10 * SubScale
         /\ tier = MODERATE => sub * 10 = 8 * SubScale
         /\ tier = EXPENSIVE => sub * 10 = 6 * SubScale
         /\ tier = VERY_EXPENSIVE => sub * 10 = 4 * SubScale
         /\ tier \notin PriceRange => sub * 10 = 5 * SubScale
    /\ \A i \in 1..Len(TierOrder), j \in 1..Len(TierOrder) :
         i < j => priceScore([priceRange |-> TierOrder[i]])
                    >= priceScore([priceRange |-> TierOrder[j]])

\* a restaurant whose price is none of the four tiers has been ranked at 0.5
C12_Witness ==
  /\ Ranked
  /\ \E rk \in FirstRankings :
       /\ rk.restaurant.priceRange \notin PriceRange
       /\ rk.factors[3].score * 2 = SubScale

\* C13: the source-reliability sub-score is 1.0 when the restaurant's source
\* is Yelp and 0.8 for every other source value.
C13_SourceReliability ==
  Ranked =>
    \A rk \in FirstRankings :
      /\ rk.factors[5].name = "Data Source"
      /\ rk.restaurant.source = YELP => rk.factors[5].score = SubScale
      /\ rk.restaurant.source # YELP => rk.factors[5].score * 10 = 8 * SubScale

\* one call has ranked a Yelp, a Google and a Perplexity restaurant
C13_Witness ==
  /\ Ranked
  /\ \E rk \in FirstRankings :
       rk.restaurant.source = YELP /\ rk.factors[5].score = SubScale
  /\ \E rk \in FirstRankings :
       rk.restaurant.source = GOOGLE /\ rk.factors[5].score * 10 = 8 * SubScale
  /\ \E rk \in FirstRankings :
       rk.restaurant.source = PERPLEXITY /\ rk.factors[5].score * 10 = 8 * SubScale

FactorNames ==
  <<"Rating", "Review Count", "Price Range", "Information Completeness", "Data Source">>

\* C14: every Ranking returned by rankRestaurants carries exactly five
\* factor entries, in the order rating, review count, price range,
\* information completeness, data source, each with a name, its weight, its
\* sub-score and a description; there is one Ranking per restaurant given.
C14_FiveFactors ==
  Ranked =>
    /\ Len(rankings[1]) = Len(restaurants)
    /\ \A rk \in FirstRankings :
         /\ DOMAIN rk = {"restaurant", "score", "factors"}
         /\ Len(rk.factors) = 5
         /\ [k \in 1..5 |-> rk.factors[k].name] = FactorNames
         /\ [k \in 1..5 |-> rk.factors[k].weight] = TableWeights
         /\ [k \in 1..5 |-> rk.factors[k].score] = TableSubScores(rk.restaurant)
         /\ \A k \in 1..5 :
              /\ DOMAIN rk.factors[k] = {"name", "weight", "score", "description"}
              /\ rk.factors[k].description # <<>>

\* three restaurants have been ranked, each with its five factors
C14_Witness ==
  /\ Ranked
  /\ Len(rankings[1]) = 3
  /\ \A rk \in FirstRankings : Len(rk.factors) = 5

SameScoredFields(a, b) ==
  /\ a.rating = b.rating
  /\ a.reviewCount = b.reviewCount
  /\ a.priceRange = b.priceRange
  /\ CompletenessCount(a) = CompletenessCount(b)
  /\ (a.source = YELP) = (b.source = YELP)

\* C16: any two restaurants that agree on rating, review count, price tier,
\* completeness score and source-reliability tier receive exactly equal
\* ranking scores, whatever their other fields are.
C16_EqualInputsEqualScores ==
  Ranked =>
    \A a \in FirstRankings, b \in FirstRankings :
      SameScoredFields(a.restaurant, b.restaurant) => a.score = b.score

\* two restaurants of different id, name, address, source and filled fields
\* that agree in the five scored properties have been ranked
C16_Witness ==
  /\ Ranked
  /\ \E a \in FirstRankings, b \in FirstRankings :
       /\ SameScoredFields(a.restaurant, b.restaurant)
       /\ a.restaurant.id # b.restaurant.id
       /\ a.restaurant.name # b.restaurant.name
       /\ a.restaurant.address # b.restaurant.address
       /\ a.restaurant.phone # b.restaurant.phone
       /\ a.restaurant.source # b.restaurant.source
       /\ a.score = b.score

\* C17: rankRestaurants never fails on a well-formed restaurant list and
\* returns an empty sequence for an empty input.
C17_NeverFails ==
  (op = "rankRestaurants" /\ pc # "rank") =>
    /\ thrown = <<>>
    /\ rankings # <<>>
    /\ Len(rankings[1]) = Len(restaurants)
    /\ restaurants = <<>> => rankings[1] = <<>>

\* the empty list has been ranked
C17_Witness ==
  /\ Ranked
  /\ restaurants = <<>>
  /\ rankings[1] = <<>>
  /\ thrown = <<>>

(***************************************************************************)
(* Properties of concurrent invocations (specification SpecConc).          *)
(***************************************************************************)
RECURSIVE OkResults(_)
\* the results of the adapter calls that completed, in call order
OkResults(outs) ==
  IF outs = <<>> THEN <<>>
  ELSE (IF Head(outs).status = "ok"
        THEN << [restaurants |-> Head(outs).restaurants] >>
        ELSE <<>>) \o OkResults(Tail(outs))

\* what searchWithMultipleTools returns for these adapter outcomes when it
\* runs alone
Alone(outs) == combineAndDeduplicateResults(OkResults(outs))

\* C20: when two searchWithMultipleTools invocations on the shared tool
\* manager run concurrently, interleaving at their adapter awaits, each
\* returns the restaurants it would return running alone: no record or
\* failure of one invocation's adapters appears in or removes anything from
\* the other's result.
C20_InvocationsIsolated ==
  pc = "concurrent" =>
    \A i \in Invocations :
      LET inv == invocations[i] IN
      inv.pc = "done" =>
        /\ inv.thrown = <<>>
        /\ inv.returned # <<>>
        /\ inv.returned[1].restaurants = Alone(inv.outcomes)
        /\ inv.returned[1].totalResults = Len(Alone(inv.outcomes))
        /\ inv.returned[1].searchParams = inv.params
        /\ Len(inv.outcomes) = Len(inv.toolNames)

\* both invocations waited for an adapter at the same time; the first had a
\* failed adapter and returned nothing, the second returned a record
C20_Witness ==
  /\ pc = "concurrent"
  /\ \A i \in Invocations : invocations[i].pc = "done"
  /\ \E i \in Invocations : invocations[i].overlapped
  /\ \E k \in 1..Len(invocations[1].outcomes) : invocations[1].outcomes[k].status = "failed"
  /\ invocations[1].returned[1].restaurants = <<>>
  /\ Len(invocations[2].returned[1].restaurants) = 1
  /\ invocations[1].toolNames = invocations[2].toolNames

(***************************************************************************)
(* Properties of the name order (specification SpecOrder).                 *)
(***************************************************************************)
\* the records the adapters return to a run, in the order the run meets them
EncounteredIn(names) ==
  LET results == CollectResults(names, params, responses)
  IN Concat([k \in 1..Len(results) |-> results[k].restaurants])

\* the first record of the key, in the order of the run, among those of the
\* key's highest completeness score
BestFirstIn(names, key) ==
  LET enc == EncounteredIn(names)
      group == {k \in 1..Len(enc) : DedupKey(enc[k]) = key}
      best == {k \in group :
                 \A m \in group :
                   getRestaurantInfoScore(enc[m]) <= getRestaurantInfoScore(enc[k])}
  IN enc[CHOOSE k \in best : \A m \in best : k <= m]

\* C21 as stated: for fixed adapter responses, the set of restaurant records
\* returned by searchWithMultipleTools is the same for every ordering of the
\* provider name sequence.
C21_SameRecordsAnyOrder ==
  \A a \in 1..Len(runs), b \in 1..Len(runs) :
    Range(runs[a].returned.restaurants) = Range(runs[b].returned.restaurants)

\* C21, amended: for fixed adapter responses every ordering of the name
\* sequence returns the same set of dedup keys and, for each key, a record
\* of the same completeness score, the highest among the records of the
\* key; the record is the first of these in the order of the run, so it is
\* the same in every ordering unless different records tie at the highest
\* score.
C21_SameKeysAnyOrder ==
  \A a \in 1..Len(runs), b \in 1..Len(runs) :
    LET ra == runs[a].returned.restaurants
        rb == runs[b].returned.restaurants IN
    /\ {DedupKey(r) : r \in Range(ra)} = {DedupKey(r) : r \in Range(rb)}
    /\ \A x \in Range(ra), y \in Range(rb) :
         DedupKey(x) = DedupKey(y) =>
           /\ getRestaurantInfoScore(x) = getRestaurantInfoScore(y)
           /\ x = BestFirstIn(runs[a].toolNames, DedupKey(x))
           /\ y = BestFirstIn(runs[b].toolNames, DedupKey(y))
           /\ x # y =>
                \E u \in Range(EncounteredIn(toolNames)), v \in Range(EncounteredIn(toolNames)) :
                  /\ u # v
                  /\ DedupKey(u) = DedupKey(x) /\ DedupKey(v) = DedupKey(x)
                  /\ getRestaurantInfoScore(u) = getRestaurantInfoScore(x)
                  /\ getRestaurantInfoScore(v) = getRestaurantInfoScore(x)

\* two orderings have run on answers of both providers; the record they both
\* return for one key is the more complete one, which the first run met
\* last and the second run met first
C21_Witness ==
  /\ Len(runs) = 2
  /\ runs[1].toolNames # runs[2].toolNames
  /\ responses["google"].ok /\ responses["yelp"].ok
  /\ \E x \in Range(runs[1].returned.restaurants) :
       LET enc1 == EncounteredIn(runs[1].toolNames)
           enc2 == EncounteredIn(runs[2].toolNames) IN
       /\ x \in Range(runs[2].returned.restaurants)
       /\ enc1[Len(enc1)] = x
       /\ enc2[1] = x
       /\ \E k \in 1..Len(enc2) :
            /\ DedupKey(enc2[k]) = DedupKey(x)
            /\ getRestaurantInfoScore(enc2[k]) < getRestaurantInfoScore(x)

(***************************************************************************)
(* Properties of one adapter call (specification SpecAdapter).             *)
(***************************************************************************)
\* searchRestaurants of an adapter has returned
AdapterDone == op = "searchRestaurants" /\ pc = "done" /\ returned # <<>>

\* C22 as stated: every restaurant entity returned by any adapter's
\* searchRestaurants has a rating within [1,5], whatever rating value the
\* provider response carries.
C22_RatingClamped ==
  AdapterDone =>
    \A r \in Range(returned[1].restaurants) :
      /\ r.rating >= 1 * RatingScale
      /\ r.rating <= 5 * RatingScale

\* an item of the provider's answer can be turned into an entity
Parseable(provider, item) ==
  CASE provider = "yelp" -> item.coordinates # <<>>
    [] provider = "google" -> item.isRestaurant /\ item.link # <<>>
    [] provider = "perplexity" -> "name" \in DOMAIN item

\* the entity of one item
EntityOf(provider, item) ==
  CASE provider = "yelp" -> parseBusiness(item)
    [] provider = "google" -> parseSearchResult(item)
    [] provider = "perplexity" -> parseRestaurant(item)

\* the entities of all items that can be parsed, in response order
EntitiesOf(provider, items) ==
  LET ok == SelectSeq(items, LAMBDA item : Parseable(provider, item))
  IN [k \in 1..Len(ok) |-> EntityOf(provider, ok[k])]

\* C23 as stated: within one adapter call a result item whose parsing fails
\* is skipped; the call still completes and returns the entities parsed from
\* all other items of the response, in response order.
C23_AllOtherItems ==
  (op = "searchRestaurants" /\ pc = "done" /\ responses[toolNames[1]].ok) =>
    /\ thrown = <<>>
    /\ returned # <<>>
    /\ returned[1].restaurants = EntitiesOf(toolNames[1], responses[toolNames[1]].items)

\* C23, amended: the item whose parsing fails is skipped, the call completes
\* and returns the entities parsed from all other items, in response order;
\* the Yelp adapter then drops the entities rated below params.rating when
\* that parameter is set.
C23_SkipsFailedItems ==
  (op = "searchRestaurants" /\ pc = "done" /\ responses[toolNames[1]].ok) =>
    LET entities == EntitiesOf(toolNames[1], responses[toolNames[1]].items) IN
    /\ thrown = <<>>
    /\ returned # <<>>
    /\ returned[1].restaurants =
         IF toolNames[1] = "yelp" /\ params.rating # 0
         THEN SelectSeq(entities, LAMBDA r : r.rating >= params.rating)
         ELSE entities
    /\ returned[1].totalResults = Len(returned[1].restaurants)

\* a Yelp call whose first business cannot be parsed has returned the entity
\* of the second
C23_Witness ==
  /\ AdapterDone
  /\ toolNames = <<"yelp">>
  /\ Len(responses["yelp"].items) = 2
  /\ ~Parseable("yelp", responses["yelp"].items[1])
  /\ Parseable("yelp", responses["yelp"].items[2])
  /\ returned[1].restaurants = <<parseBusiness(responses["yelp"].items[2])>>

(***************************************************************************)
(* RestaurantRecommendationAgent.getRecommendations (src/unnamed/part_003), *)
(* one step per await. The user input is held as its sequence of words;    *)
(* String.prototype.includes is decided on whole words, and the inputs are *)
(* chosen so that no keyword occurs inside a longer word.                  *)
(***************************************************************************)
\* a JSON array and a JSON string, as JSON.parse returns them
JsArray(items) == [kind |-> "array", items |-> items]
JsString(value) == [kind |-> "string", value |-> value]

\* userInput.toLowerCase(), word by word
LowerWord(w) ==
  CASE w = "Italian" -> "italian"
    [] w = "Thai" -> "thai"
    [] w = "Austin" -> "austin"
    [] OTHER -> w
LowerWords(ws) == [i \in 1..Len(ws) |-> LowerWord(ws[i])]

\* input.includes(keyword), the keyword given as its words
includes(input, keyword) ==
  \E i \in 1..Len(input) :
    /\ i + Len(keyword) - 1 <= Len(input)
    /\ SubSeq(input, i, i + Len(keyword) - 1) = keyword

\* the cuisine keywords, in the order of the if statements
CuisineKeywords ==
  <<"italian", "chinese", "mexican", "japanese", "indian", "american",
    "mediterranean", "thai", "french">>

\* the price keywords and the price word each group pushes
PriceKeywords ==
  << [words |-> {<<"cheap">>, <<"budget">>, <<"affordable">>}, push |-> "budget"],
     [words |-> {<<"moderate">>, <<"casual">>}, push |-> "moderate"],
     [words |-> {<<"expensive">>, <<"upscale">>, <<"fine", "dining">>}, push |-> "expensive"],
     [words |-> {<<"luxury">>, <<"high", "end">>}, push |-> "very_expensive"] >>

\* the words the location pattern (?:in|at|near|around)\s+ matches
LocationWords == {"in", "at", "near", "around"}

\* 'San Francisco, CA'
DefaultLocation == <<"San Francisco, CA">>

\* input.match(/(?:in|at|near|around)\s+([^,]+...)/i): what follows the
\* first location word, up to the end of the input (the inputs hold no comma)
extractLocation(input) ==
  LET hits == {i \in 1..(Len(input) - 1) : input[i] \in LocationWords} IN
  IF hits = {} THEN DefaultLocation
  ELSE LET first == CHOOSE i \in hits : \A j \in hits : i <= j
       IN SubSeq(input, first + 1, Len(input))

\* the context and constraints both parsers fill in when nothing is given
DefaultContext(location) ==
  [location |-> location, occasion |-> "dinner", groupSize |-> 2,
   timeOfDay |-> "evening", urgency |-> "medium"]
DefaultConstraints ==
  [maxResults |-> 5, mustBeOpen |-> TRUE, includeDelivery |-> FALSE,
   includeTakeout |-> TRUE, excludeChains |-> FALSE]

\* RestaurantRecommendationAgent.parseUserInputFallback
parseUserInputFallback(userInput) ==
  LET input == LowerWords(userInput)
      cuisines == SelectSeq(CuisineKeywords, LAMBDA c : includes(input, <<c>>))
      groups == SelectSeq(PriceKeywords,
                          LAMBDA g : \E kw \in g.words : includes(input, kw))
      priceRange == [i \in 1..Len(groups) |-> groups[i].push]
  IN [ preferences |->
         [ cuisine |-> JsArray(IF Len(cuisines) > 0 THEN cuisines ELSE <<"american">>),
           priceRange |-> JsArray(IF Len(priceRange) > 0 THEN priceRange
                                  ELSE <<"budget", "moderate">>),
           dietaryRestrictions |-> <<>>,
           preferredFeatures |-> <<>>,
           ratingThreshold |-> 4 * RatingScale,
           maxDistance |-> 10 ],
       context |-> DefaultContext(extractLocation(input)),
       constraints |-> DefaultConstraints ]

\* parsed.part?.field || default
FieldOr(parsed, part, field, default) ==
  IF part \in DOMAIN parsed /\ field \in DOMAIN parsed[part]
  THEN parsed[part][field] ELSE default

\* the object parseUserInput builds from the JSON of the model's answer
parseUserInputFromJson(parsed) ==
  [ preferences |->
      [ cuisine |-> FieldOr(parsed, "preferences", "cuisine", JsArray(<<"american">>)),
        priceRange |-> FieldOr(parsed, "preferences", "priceRange",
                               JsArray(<<"budget", "moderate">>)),
        dietaryRestrictions |-> <<>>,
        preferredFeatures |-> <<>>,
        ratingThreshold |-> FieldOr(parsed, "preferences", "ratingThreshold",
                                    4 * RatingScale),
        maxDistance |-> 10 ],
    context |->
      [ DefaultContext(FieldOr(parsed, "context", "location", DefaultLocation))
          EXCEPT !.occasion = FieldOr(parsed, "context", "occasion", "dinner") ],
    constraints |-> DefaultConstraints ]

\* preferences.cuisine.join(...) throws when the model gave no array
buildSearchParamsThrows(preferences) == preferences.cuisine.kind # "array"

\* RestaurantRecommendationAgent.buildSearchParams
buildSearchParams(preferences, context, constraints) ==
  [ query |-> preferences.cuisine.items \o <<"restaurant">>,
    location |-> context.location,
    radius |-> preferences.maxDistance,
    cuisine |-> preferences.cuisine,
    priceRange |-> preferences.priceRange,
    rating |-> preferences.ratingThreshold,
    openNow |-> constraints.mustBeOpen,
    maxResults |-> constraints.maxResults ]

\* ToolManager.getAvailableTools: the keys of this.tools in insertion order
getAvailableTools == SelectSeq(<<"google", "yelp">>, LAMBDA name : name \in tools)

\* Array.prototype.slice(start, end)
Slice(seq, start, end) ==
  IF start >= Len(seq) THEN <<>> ELSE SubSeq(seq, start + 1, Min(end, Len(seq)))

\* restaurant.cuisine: the provider items of the model carry no category,
\* for which both adapters set ['american']
restaurantCuisine(restaurant) == <<"american">>

\* the prompt of generateReasoning is built before its try block;
\* preferences.priceRange.join throws when the model gave no array
generateReasoningThrows(preferences) == preferences.priceRange.kind # "array"

\* RestaurantRecommendationAgent.generateReasoningFallback: the template
\* text, held as its parts
generateReasoningFallback(preferences, recommendations) ==
  [ kind |-> "template",
    cuisine |-> preferences.cuisine.items,
    priceRange |-> preferences.priceRange.items,
    entries |-> [i \in 1..Len(recommendations) |->
                   [ name |-> recommendations[i].restaurant.name,
                     cuisine |-> restaurantCuisine(recommendations[i].restaurant),
                     rating |-> recommendations[i].restaurant.rating,
                     reviewCount |-> recommendations[i].restaurant.reviewCount,
                     priceRange |-> recommendations[i].restaurant.priceRange ]] ]

\* RestaurantRecommendationAgent.getRelatedCuisines
getRelatedCuisines(cuisine) ==
  CASE cuisine = "italian" -> <<"mediterranean", "french", "spanish">>
    [] cuisine = "chinese" -> <<"japanese", "korean", "vietnamese", "thai">>
    [] cuisine = "mexican" -> <<"spanish", "caribbean", "latin american">>
    [] cuisine = "indian" -> <<"pakistani", "bangladeshi", "sri lankan">>
    [] cuisine = "american" -> <<"bbq", "soul food", "southern">>
    [] cuisine = "mediterranean" -> <<"greek", "lebanese", "turkish", "italian">>
    [] cuisine = "french" -> <<"italian", "mediterranean", "european">>
    [] OTHER -> <<>>

\* RestaurantRecommendationAgent.generateNextSteps
generateNextSteps(preferences) ==
  LET cuisines == preferences.cuisine.items
      explore == IF Len(cuisines) = 1 /\ getRelatedCuisines(cuisines[1]) # <<>>
                 THEN << <<"Try exploring", getRelatedCuisines(cuisines[1])>> >>
                 ELSE <<>>
  IN explore \o << <<"Check restaurant hours and make reservations if needed">>,
                   <<"Read recent reviews for the latest information">> >>

\* the three match scores of one recommendation, summed
matchScore(restaurant, preferences) ==
    (IF \E i \in 1..Len(preferences.cuisine.items) :
          \E j \in 1..Len(restaurantCuisine(restaurant)) :
            restaurantCuisine(restaurant)[j] = preferences.cuisine.items[i]
     THEN 1 ELSE 0)
  + (IF \E i \in 1..Len(preferences.priceRange.items) :
          preferences.priceRange.items[i] = restaurant.priceRange
     THEN 1 ELSE 0)
  + (IF restaurant.rating >= preferences.ratingThreshold THEN 1 ELSE 0)

RECURSIVE SumMatchScores(_, _)
SumMatchScores(recommendations, preferences) ==
  IF recommendations = <<>> THEN 0
  ELSE matchScore(Head(recommendations).restaurant, preferences)
       + SumMatchScores(Tail(recommendations), preferences)

\* RestaurantRecommendationAgent.calculateConfidence, as the fraction
\* num/den: the sum of (cuisineMatch + priceMatch + ratingMatch) / 3 over
\* the recommendations, divided by their number
calculateConfidence(recommendations, preferences) ==
  IF Len(recommendations) = 0 THEN [num |-> 0, den |-> 1]
  ELSE [num |-> SumMatchScores(recommendations, preferences),
        den |-> 3 * Len(recommendations)]

\* the error getRecommendations throws from its catch clause
RecommendationsFailed(cause) ==
  [name |-> "Error", message |-> <<"Failed to generate recommendations: ", cause>>]

\* the requests a user types
UserInputs ==
  { <<"cheap", "Italian", "food">>, <<"Thai", "near", "Austin">>, <<"dinner">> }

\* the maxResults argument: a caller's 1 and the default 5
AgentMaxResults == {1, 5}

\* what JSON.parse gives for the model's answer to the parsing prompt; <<>>
\* stands for an answer that holds no JSON object
ModelParseAnswers ==
  { <<>>,
    << [preferences |-> [cuisine |-> JsArray(<<"american", "thai">>),
                         priceRange |-> JsArray(<<"$$">>),
                         ratingThreshold |-> 45]] >>,
    << [context |-> [occasion |-> "lunch"]] >>,
    << [preferences |-> [cuisine |-> JsString("thai")]] >>,
    << [preferences |-> [priceRange |-> JsString("moderate")]] >> }

\* the model's answer to the reasoning prompt
ModelReasoningAnswers == {"These restaurants fit your request."}

InitAgent ==
  /\ tools = initializeTools
  /\ pc = "agentIdle"
  /\ op = "none"
  /\ toolNames = <<>>
  /\ params \in {p \in ParamsPool : p.rating = 0}
  /\ idx = 0
  /\ allResults = <<>>
  /\ inflight = {}
  /\ calls = <<>>
  /\ outcomes = <<>>
  /\ returned = <<>>
  /\ thrown = <<>>
  /\ restaurants = <<>>
  /\ rankings = <<>>
  /\ invocations = <<>>
  /\ responses = <<>>
  /\ runs = <<>>
  /\ agent = <<>>

\* a caller invokes getRecommendations(userInput, maxResults); parseUserInput
\* awaits this.model.invoke(prompt)
AgentStart ==
  /\ pc = "agentIdle"
  /\ \E userInput \in UserInputs, maxResults \in AgentMaxResults :
       agent' = [ stage |-> "parseUserInput", userInput |-> userInput,
                  maxResults |-> maxResults, modelCalls |-> <<>>,
                  parsed |-> <<>>, result |-> <<>> ]
  /\ pc' = "awaitModel"
  /\ UNCHANGED << aggVars_but_pc, rankVars, concVars, fixedVars >>

\* parseUserInput has returned parsed: buildSearchParams, then the call of
\* toolManager.searchWithMultipleTools(toolManager.getAvailableTools(), ...);
\* a throw of buildSearchParams reaches the catch clause of getRecommendations
AgentSearch(parsed, modelCall) ==
  IF buildSearchParamsThrows(parsed.preferences)
  THEN /\ agent' = [agent EXCEPT !.stage = "failed", !.parsed = <<parsed>>,
                                 !.modelCalls = Append(@, modelCall)]
       /\ thrown' = <<RecommendationsFailed("join is not a function")>>
       /\ pc' = "done"
       /\ UNCHANGED << tools, op, toolNames, params, idx, allResults, inflight,
                       calls, outcomes, returned, rankVars, concVars, fixedVars >>
  ELSE /\ agent' = [agent EXCEPT !.stage = "search", !.parsed = <<parsed>>,
                                 !.modelCalls = Append(@, modelCall)]
       /\ op' = "searchWithMultipleTools"
       /\ toolNames' = getAvailableTools
       /\ params' = buildSearchParams(parsed.preferences, parsed.context,
                                      parsed.constraints)
       /\ idx' = 1
       /\ allResults' = <<>>
       /\ pc' = "loop"
       /\ UNCHANGED << tools, inflight, calls, outcomes, returned, thrown,
                       rankVars, concVars, fixedVars >>

\* the model answers the parsing prompt: with a JSON object the preferences
\* are read from it, without one the thrown error is caught and the keyword
\* fallback parses the input
AgentParseReturns ==
  /\ pc = "awaitModel"
  /\ agent.stage = "parseUserInput"
  /\ \E answer \in ModelParseAnswers :
       AgentSearch(IF answer # <<>> THEN parseUserInputFromJson(answer[1])
                   ELSE parseUserInputFallback(agent.userInput), "ok")

\* AgentParseFails without the catch clause of parseUserInput: the rejection
\* reaches the catch clause of getRecommendations
AgentParseFailsRethrows ==
  /\ pc = "awaitModel"
  /\ agent.stage = "parseUserInput"
  /\ agent' = [agent EXCEPT !.stage = "failed", !.modelCalls = Append(@, "failed")]
  /\ thrown' = <<RecommendationsFailed("model call failed")>>
  /\ pc' = "done"
  /\ UNCHANGED << tools, op, toolNames, params, idx, allResults, inflight,
                  calls, outcomes, returned, rankVars, concVars, fixedVars >>

\* the model call of parseUserInput rejects: the catch clause logs and
\* returns parseUserInputFallback(userInput)
AgentParseFails ==
  /\ pc = "awaitModel"
  /\ agent.stage = "parseUserInput"
  /\ AgentSearch(parseUserInputFallback(agent.userInput), "failed")

\* AgentRank whose rankRestaurants sorts the array it was given
AgentRankSortsInput ==
  /\ pc = "done"
  /\ agent # <<>>
  /\ agent.stage = "search"
  /\ returned # <<>>
  /\ rankings' = <<rankRestaurants(returned[1].restaurants)>>
  /\ returned' = << [returned[1] EXCEPT
                       !.restaurants = [i \in 1..Len(rankings'[1]) |->
                                          rankings'[1][i].restaurant]] >>
  /\ IF generateReasoningThrows(agent.parsed[1].preferences)
     THEN /\ agent' = [agent EXCEPT !.stage = "failed"]
          /\ thrown' = <<RecommendationsFailed("join is not a function")>>
          /\ pc' = pc
     ELSE /\ agent' = [agent EXCEPT !.stage = "generateReasoning"]
          /\ pc' = "awaitModel"
          /\ thrown' = thrown
  /\ UNCHANGED << tools, op, toolNames, params, idx, allResults, inflight,
                  calls, outcomes, restaurants, concVars, fixedVars >>

\* searchWithMultipleTools has returned: rankRestaurants(searchResult
\* .restaurants), slice, and generateReasoning builds its prompt and awaits
\* this.model.invoke(prompt); a throw while the prompt is built reaches the
\* catch clause of getRecommendations
AgentRank ==
  /\ pc = "done"
  /\ agent # <<>>
  /\ agent.stage = "search"
  /\ returned # <<>>
  /\ rankings' = <<rankRestaurants(returned[1].restaurants)>>
  /\ IF generateReasoningThrows(agent.parsed[1].preferences)
     THEN /\ agent' = [agent EXCEPT !.stage = "failed"]
          /\ thrown' = <<RecommendationsFailed("join is not a function")>>
          /\ pc' = pc
     ELSE /\ agent' = [agent EXCEPT !.stage = "generateReasoning"]
          /\ pc' = "awaitModel"
          /\ thrown' = thrown
  /\ UNCHANGED << tools, op, toolNames, params, idx, allResults, inflight,
                  calls, outcomes, returned, restaurants, concVars, fixedVars >>

\* generateReasoning has returned reasoning: generateNextSteps,
\* calculateConfidence and the return of getRecommendations
AgentReturn(reasoning, modelCall) ==
  LET preferences == agent.parsed[1].preferences
      topRankings == Slice(rankings[1], 0, agent.maxResults)
  IN /\ agent' = [agent EXCEPT
                    !.stage = "returned",
                    !.modelCalls = Append(@, modelCall),
                    !.result = << [ recommendations |-> topRankings,
                                    reasoning |-> reasoning,
                                    confidence |-> calculateConfidence(topRankings, preferences),
                                    alternatives |-> Slice(rankings[1], agent.maxResults,
                                                           agent.maxResults + 3),
                                    nextSteps |-> generateNextSteps(preferences) ] >>]
     /\ pc' = "returned"
     /\ UNCHANGED << aggVars_but_pc, rankVars, concVars, fixedVars >>

\* the model answers the reasoning prompt
AgentReasoningReturns ==
  /\ pc = "awaitModel"
  /\ agent.stage = "generateReasoning"
  /\ \E text \in ModelReasoningAnswers :
       AgentReturn([kind |-> "model", text |-> text], "ok")

\* the model call of generateReasoning rejects: the catch clause logs and
\* returns generateReasoningFallback(preferences, recommendations)
AgentReasoningFails ==
  /\ pc = "awaitModel"
  /\ agent.stage = "generateReasoning"
  /\ AgentReturn(generateReasoningFallback(agent.parsed[1].preferences,
                                           Slice(rankings[1], 0, agent.maxResults)),
                 "failed")

\* the steps of searchWithMultipleTools inside getRecommendations leave the
\* agent's locals as they are
NextAgent ==
  \/ AgentStart
  \/ AgentParseReturns
  \/ AgentParseFails
  \/ CallTool
  \/ AdapterReturns
  \/ AdapterFails
  \/ ReturnCombined
  \/ AgentRank
  \/ AgentReasoningReturns
  \/ AgentReasoningFails

SpecAgent == InitAgent /\ [][NextAgent]_vars

(***************************************************************************)
(* Further properties of the aggregation (specification Spec).             *)
(***************************************************************************)
\* the dedup keys of a sequence of records, in order
KeysOf(seq) == [i \in 1..Len(seq) |-> DedupKey(seq[i])]

\* the positions of a sequence that hold the first occurrence of their value
FirstOccurrences(seq) == {i \in 1..Len(seq) : \A j \in 1..(i - 1) : seq[j] # seq[i]}

\* a sequence without the repetitions of earlier elements
RECURSIVE WithoutRepeats(_)
WithoutRepeats(seq) ==
  IF seq = <<>> THEN <<>>
  ELSE LET front == WithoutRepeats(SubSeq(seq, 1, Len(seq) - 1)) IN
       IF Len(seq) \in FirstOccurrences(seq) THEN Append(front, seq[Len(seq)])
       ELSE front

\* C24: the aggregated restaurant sequence lists the dedup keys in the order
\* each key was first encountered (adapter order, then result order); a
\* later, more complete record that replaces the retained one stands at the
\* position of the record it replaces.
C24_FirstEncounterOrder ==
  (MultiDone /\ returned # <<>>) =>
    LET out == returned[1].restaurants IN
    /\ KeysOf(out) = WithoutRepeats(KeysOf(Encountered))
    /\ \A i \in 1..Len(out) :
         \E k \in 1..Len(Encountered) :
           /\ out[i] = Encountered[k]
           /\ DedupKey(Encountered[k]) = WithoutRepeats(KeysOf(Encountered))[i]

\* the first record encountered was replaced by a later, more complete one
\* of the second adapter, which stands first, before a record of another key
C24_Witness ==
  /\ MultiDone
  /\ returned # <<>>
  /\ Len(returned[1].restaurants) = 2
  /\ Len(Encountered) = 3
  /\ DedupKey(Encountered[3]) = DedupKey(Encountered[1])
  /\ DedupKey(Encountered[2]) # DedupKey(Encountered[1])
  /\ returned[1].restaurants = <<Encountered[3], Encountered[2]>>

\* C26: two records whose (lower-cased name, lower-cased address) pairs
\* differ are never treated as duplicates: both survive in the aggregated
\* output, also when the name or the address contains the separator
\* character of the key.
C26_DifferentPairsSurvive ==
  (MultiDone /\ returned # <<>>) =>
    \A k, m \in 1..Len(Encountered) :
      NameAddress(Encountered[k]) # NameAddress(Encountered[m]) =>
        \E i, j \in 1..Len(returned[1].restaurants) :
          /\ i # j
          /\ NameAddress(returned[1].restaurants[i]) = NameAddress(Encountered[k])
          /\ NameAddress(returned[1].restaurants[j]) = NameAddress(Encountered[m])

\* C27: a provider name in the sequence given to searchWithMultipleTools
\* that is not registered is handled like a failed adapter: no adapter is
\* invoked for it and it contributes no restaurants, the names after it are
\* still processed, and the call does not raise.
C27_UnknownNameSkipped ==
  op = "searchWithMultipleTools" =>
    \A i \in 1..Len(toolNames) :
      toolNames[i] \notin tools =>
        /\ thrown = <<>>
        /\ ~Invoked(i)
        /\ i <= Len(outcomes) =>
             /\ outcomes[i].status = "notfound"
             /\ outcomes[i].restaurants = <<>>
        /\ MultiDone =>
             /\ returned # <<>>
             /\ Len(outcomes) = Len(toolNames)
             /\ Len(allResults) = Cardinality(OkPositions)
             /\ returned[1].restaurants =
                  combineAndDeduplicateResults(
                    [k \in 1..Len(Encountered) |-> [restaurants |-> <<Encountered[k]>>]])
             /\ \A j \in (i + 1)..Len(toolNames) : toolNames[j] \in tools => Invoked(j)

\* searchWithMultipleTools(['bing', 'yelp']) has returned Yelp's restaurants
C27_Witness ==
  /\ MultiDone
  /\ toolNames = <<"bing", "yelp">>
  /\ Len(outcomes) = 2
  /\ outcomes[1].status = "notfound"
  /\ outcomes[2].status = "ok"
  /\ Len(calls) = 1
  /\ calls[1].tool = "yelp"
  /\ thrown = <<>>
  /\ returned # <<>>
  /\ returned[1].restaurants = outcomes[2].restaurants
  /\ Len(returned[1].restaurants) = 2

\* C28: every record of the aggregated output is, unchanged in all its
\* fields, one of the records a successful adapter returned in that
\* invocation: deduplication selects between duplicates and neither combines
\* fields of two records nor creates a record.
C28_OutputRecordsAreInputs ==
  (MultiDone /\ returned # <<>>) =>
    \A i \in 1..Len(returned[1].restaurants) :
      \E k \in 1..Len(Encountered) :
        /\ returned[1].restaurants[i] = Encountered[k]
        /\ \A f \in DOMAIN Encountered[k] :
             returned[1].restaurants[i][f] = Encountered[k][f]

\* two adapters returned one record each, duplicates of each other that
\* differ in id and source, and the more complete second one was selected
C28_Witness ==
  /\ MultiDone
  /\ returned # <<>>
  /\ Len(Encountered) = 2
  /\ DedupKey(Encountered[1]) = DedupKey(Encountered[2])
  /\ Encountered[1].id # Encountered[2].id
  /\ Encountered[1].source # Encountered[2].source
  /\ getRestaurantInfoScore(Encountered[2]) > getRestaurantInfoScore(Encountered[1])
  /\ returned[1].restaurants = <<Encountered[2]>>

\* C29: in every result searchWithMultipleTools returns, totalResults is
\* the length of the returned restaurant sequence, the count after
\* deduplication and not the sum of the adapters' counts.
C29_TotalIsLength ==
  (op = "searchWithMultipleTools" /\ returned # <<>>) =>
    /\ returned[1].totalResults = Len(returned[1].restaurants)
    /\ returned[1].totalResults = Cardinality({DedupKey(r) : r \in Range(Encountered)})

\* two adapters reported two results each, four in sum, and the aggregated
\* result reports the two that remain after deduplication
C29_Witness ==
  /\ MultiDone
  /\ returned # <<>>
  /\ Len(allResults) = 2
  /\ allResults[1].totalResults = 2
  /\ allResults[2].totalResults = 2
  /\ Len(returned[1].restaurants) = 2
  /\ returned[1].totalResults = 2

(***************************************************************************)
(* Properties of getRecommendations (specification SpecAgent).             *)
(***************************************************************************)
\* getRecommendations has called searchWithMultipleTools
AgentSearched ==
  agent # <<>> /\ agent.parsed # <<>> /\ op = "searchWithMultipleTools"

\* C25: rankRestaurants and searchWithMultipleTools leave their inputs
\* unchanged: the set of registered tools is the one the constructor
\* registered; during and after the search the name sequence and the
\* parameters are those the caller passed and every adapter result holds the
\* records the adapter returned; after ranking, the restaurant sequence
\* given to rankRestaurants is still the one the search returned, in its
\* order and length and with every field of every record, and each Ranking
\* holds one of these records.
C25_InputsUnchanged ==
  /\ tools = initializeTools
  /\ AgentSearched =>
       /\ toolNames = <<"google", "yelp">>
       /\ params = buildSearchParams(agent.parsed[1].preferences,
                                     agent.parsed[1].context,
                                     agent.parsed[1].constraints)
       /\ Concat([k \in 1..Len(allResults) |-> allResults[k].restaurants]) = Encountered
       /\ rankings # <<>> =>
            /\ returned # <<>>
            /\ returned[1].restaurants = combineAndDeduplicateResults(allResults)
            /\ Len(rankings[1]) = Len(returned[1].restaurants)
            /\ \A i \in 1..Len(rankings[1]) :
                 rankings[1][i].restaurant \in Range(returned[1].restaurants)
            /\ \A r \in Range(returned[1].restaurants) :
                 \E i \in 1..Len(rankings[1]) : rankings[1][i].restaurant = r

\* the search returned two restaurants and the ranking puts the second of
\* them first, while the sequence the search returned stands as it was
C25_Witness ==
  /\ AgentSearched
  /\ rankings # <<>>
  /\ returned # <<>>
  /\ Len(returned[1].restaurants) = 2
  /\ rankings[1][1].restaurant = returned[1].restaurants[2]
  /\ rankings[1][2].restaurant = returned[1].restaurants[1]
  /\ rankings[1][1].score > rankings[1][2].score
  /\ returned[1].restaurants = Encountered

\* every model call made so far was rejected
AllModelCallsFailed ==
  \A i \in 1..Len(agent.modelCalls) : agent.modelCalls[i] = "failed"

\* every adapter call made so far was rejected
AllAdaptersFailed ==
  \A i \in 1..Len(outcomes) : outcomes[i].status = "failed"

\* C30: getRecommendations completes with a result, not an error, when
\* every language-model call fails and every adapter fails: no error is
\* thrown, the call cannot stop before it has returned, the parsed request
\* is the keyword fallback's, the reasoning is the template text, the
\* recommendations and alternatives are empty and the confidence is 0.
C30_CompletesOnTotalFailure ==
  (agent # <<>> /\ AllModelCallsFailed /\ AllAdaptersFailed) =>
    /\ thrown = <<>>
    /\ agent.stage # "failed"
    /\ (~ENABLED NextAgent) => agent.stage = "returned"
    /\ agent.parsed # <<>> => agent.parsed[1] = parseUserInputFallback(agent.userInput)
    /\ agent.stage = "returned" =>
         /\ Len(agent.modelCalls) = 2
         /\ Len(outcomes) = Len(getAvailableTools)
         /\ agent.result # <<>>
         /\ agent.result[1].recommendations = <<>>
         /\ agent.result[1].alternatives = <<>>
         /\ agent.result[1].confidence.num = 0
         /\ agent.result[1].reasoning =
              generateReasoningFallback(
                parseUserInputFallback(agent.userInput).preferences, <<>>)
         /\ agent.result[1].reasoning.kind = "template"
         /\ agent.result[1].reasoning.entries = <<>>

\* getRecommendations(['dinner']) has returned after both model calls and
\* both adapters failed, with the defaults of the keyword fallback
C30_Witness ==
  /\ agent # <<>>
  /\ agent.stage = "returned"
  /\ agent.userInput = <<"dinner">>
  /\ agent.modelCalls = <<"failed", "failed">>
  /\ Len(calls) = 2
  /\ Len(outcomes) = 2
  /\ AllAdaptersFailed
  /\ thrown = <<>>
  /\ agent.parsed[1].preferences.cuisine = JsArray(<<"american">>)
  /\ agent.parsed[1].preferences.priceRange = JsArray(<<"budget", "moderate">>)
  /\ agent.parsed[1].context.location = DefaultLocation
  /\ params.rating = 4 * RatingScale
  /\ agent.result[1].recommendations = <<>>
  /\ agent.result[1].alternatives = <<>>
  /\ agent.result[1].confidence = [num |-> 0, den |-> 1]
  /\ agent.result[1].reasoning.kind = "template"

====
